---- MODULE Spec2Model ----
(***************************************************************************)
(* State-machine model of the trading bot's signal-to-position pipeline:   *)
(*   main.py      trading_loop (risk gate, per-symbol processing, sweep)   *)
(*   executor.py  tick_symbol / clear_signal / execute_plan                *)
(*   trade.py     place_trade and manage_open_positions                    *)
(*   risk.py      risk_gates_ok                                            *)
(*                                                                         *)
(* Units.  Prices are integers in 1e-6 price units (1.10000 = 1100000).    *)
(* Volumes are integers in 0.01 lot.  Time is in seconds.                  *)
(* Python None for an integer is NoneV (-1); for a signature it is <<>>.   *)
(***************************************************************************)
EXTENDS Integers, Sequences, FiniteSets, TLC

VARIABLES
  \* ---- venue (MetaTrader terminal) ----
  positions,        \* ticket -> position record, NoPos when not open
  nextTicket,       \* next position ticket the venue hands out
  now,              \* time.time()
  \* ---- executor.py module state ----
  bars_seen,        \* _bars_seen
  started,          \* _started
  last_signal,      \* _last_signal
  last_open_time,   \* _last_open_time
  journal_sig,      \* _journal_logged_signature
  journal,          \* JOURNAL_CSV: rows dated today / this week, and the 'opened' ones
  \* ---- main.py trading_loop state ----
  pc,               \* position of the loop: "gate", "symbols", "manage", "sleep"
  idx,              \* index into SYMBOLS of the instrument processed next
  cycle,            \* number of loop iterations started
  last_plan_sig,    \* _last_plan_signature
  cooldown,         \* config.COOLDOWN_SECONDS as read from the environment
  equity_start,     \* equity read when the loop starts
  stop,             \* _stop_event is set
  slept,            \* seconds the loop has spent in the wait it is in
  \* ---- trade.py module state ----
  breakeven_set,    \* _breakeven_set_tickets
  \* ---- inputs of a single place_trade call (place_trade in isolation) ----
  callIn,           \* inputs of the call studied in isolation (place_trade: [plan, v])
  \* ---- observations of the last operation (history) ----
  lastPlace,        \* outcome of the last place_trade call
  lastExec,         \* outcome of the last execute_plan call
  lastGate,         \* outcome of the risk_gates_ok call studied in isolation
  callOut,          \* value returned by the pure function studied in isolation
  mods,             \* stop modifications sent by the last sweep
  seen,             \* ticket -> the tick the last recorded sweep read for it, 0 when none
  partial_closed,   \* _partial_closed_tickets
  closes,           \* partial-close orders submitted by the last sweep
  cyc,              \* what the current loop iteration did so far
  hist,             \* per instrument: this and the previous plan-producing cycle
  \* ---- the history scan (position_watcher.py) ----
  last_history_check,  \* trading_loop's last_history_check
  deals,            \* the venue's history: closing deals [ticket, time]
  closed_rows       \* tickets with a 'closed' row in JOURNAL_CSV

vars == <<positions, nextTicket, now, bars_seen, started, last_signal,
          last_open_time, journal_sig, journal, pc, idx, cycle, last_plan_sig, cooldown,
          equity_start, stop, slept,
          breakeven_set, partial_closed, callIn, lastPlace, lastExec, lastGate,
          callOut, mods, seen, closes, cyc, hist,
          last_history_check, deals, closed_rows>>

scanVars  == <<last_history_check, deals, closed_rows>>
venueVars == <<positions, nextTicket, now>>
execVars  == <<bars_seen, started, last_signal, last_open_time, journal_sig, journal>>
stopVars  == <<stop, slept>>
loopVars  == <<pc, idx, cycle, last_plan_sig, cooldown, scanVars, equity_start, stop, slept>>
tradeVars == <<breakeven_set, partial_closed>>
callVars  == <<callIn, lastGate, callOut>>

---------------------------------------------------------------------------
\* Bounds of the model
MaxCycles  == 6      \* loop iterations explored
MaxTickets == 3      \* position tickets the venue hands out
StartTime  == 100    \* time.time() when the loop starts (any value >= cooldown)

\* Python None for integers
NoneV == 0 - 1
\* Python None for a plan signature
NoSig == <<>>

Max2(a, b) == IF a >= b THEN a ELSE b
Min2(a, b) == IF a <= b THEN a ELSE b
Abs(a) == IF a >= 0 THEN a ELSE 0 - a

---------------------------------------------------------------------------
\* config.py
SYMBOLS == <<"EURUSD", "GBPUSD">>
TRADE_ENABLED == TRUE
NOTIFY_ONLY == FALSE
FAT_FINGER_MAX_LOTS == 500          \* 5.0 lots
STARTUP_PROTECTION_CYCLES == 3
MAX_POSITIONS_PER_SYMBOL == 2
HISTORY_LOOKBACK_SECONDS == 900     \* timedelta(minutes=15)
POLL_INTERVAL_SECONDS == 30
COOLDOWN_DEFAULT == 30
USE_TRAILING == TRUE
PARTIAL_TP_PERCENT == 50
PARTIAL_TP_RR_NUM == 1
PARTIAL_TP_RR_DEN == 1
PARTIAL_TP_MIN_LOT == 1     \* 0.01 lot
\* BREAKEVEN_RR = 1.0 and TRAILING_R_MULT = 0.5 as fractions Num/Den
BREAKEVEN_RR_NUM == 1
BREAKEVEN_RR_DEN == 1
TRAILING_R_MULT_NUM == 1
TRAILING_R_MULT_DEN == 2
\* MAX_DRAWDOWN_PCT = 0.08 and MAX_DAILY_LOSS_PCT = 0.02, in percent
MAX_DRAWDOWN_PCT_x100 == 8
MAX_DAILY_LOSS_PCT_x100 == 2
CONSECUTIVE_LOSS_LIMIT == 2
MAX_TRADES_PER_DAY == 3
MAX_TRADES_PER_WEEK == 20

SymbolSet == {SYMBOLS[i] : i \in 1..Len(SYMBOLS)}
Tickets == 1..MaxTickets

---------------------------------------------------------------------------
\* trade.py: place_trade

\* retcodes the code tests for
RC_OK == 0
RC_DONE == 10009
RC_UNSUPPORTED_FILLING == 10030

\* order_send returned None
NoResult == [rc |-> NoneV, filling |-> FALSE, deal |-> 0, order |-> 0]

\* order_send raised: the handler around the call logs it and leaves the
\* result None
RaisedV == 0 - 2
Raised == [rc |-> RaisedV, filling |-> FALSE, deal |-> 0, order |-> 0]

\* res is None
IsNoneResult(r) == r = NoResult \/ r = Raised

_round_volume_to_step(vol, vol_min, vol_max, vol_step) ==
  IF vol_step <= 0 THEN Max2(Min2(vol, vol_max), vol_min)
  ELSE LET v == Max2(vol_min, Min2(vol, vol_max))
           steps == (v - vol_min) \div vol_step
           vol_adj == vol_min + steps * vol_step
       IN IF vol_adj < vol_min THEN vol_min ELSE vol_adj

_extract_ticket_from_result(res) ==
  IF res.deal # 0 THEN res.deal ELSE IF res.order # 0 THEN res.order ELSE 0

_is_success(r) ==
  /\ ~IsNoneResult(r)
  /\ r.rc \in {RC_OK, RC_DONE}

\* rc == 10030 or "filling" in comment.lower()
IsUnsupportedFilling(r) == r.rc = RC_UNSUPPORTED_FILLING \/ r.filling

\* mutant of filling_candidates: the modes are listed in another order
filling_candidates_Reordered == <<"FOK", "IOC", "RETURN">>

filling_candidates == <<"IOC", "FOK", "RETURN">>

\* The fallback loop over filling_candidates from index i on.  v.tickAlt[i]
\* is whether build_order_request finds a tick for candidate i, v.resp[i+1]
\* is the venue's answer to that submission.
\* mutant of FallbackSuccess: the identifier is read from the default-mode result
FallbackSuccess_DefaultResult(r2, subs2, notes) ==
  [ret |-> _extract_ticket_from_result(subs2[1].res), subs |-> subs2,
   notes |-> notes \o <<"raw", "result">>]

\* a fallback submission succeeded: "ORDER OK (fallback)", notify_order_result,
\* return ticket or 0
FallbackSuccess(r2, subs2, notes) ==
  [ret |-> _extract_ticket_from_result(r2), subs |-> subs2,
   notes |-> notes \o <<"raw", "result">>]

RECURSIVE FallbackFillings(_, _, _, _)
FallbackFillings(v, i, subs, notes) ==
  IF i > Len(filling_candidates)
  THEN [ret |-> NoneV, subs |-> subs, notes |-> Append(notes, "rejected")]
  ELSE IF ~v.tickAlt[i]
  THEN FallbackFillings(v, i + 1, subs, notes)
  ELSE LET r2 == v.resp[i + 1]
           subs2 == Append(subs, [mode |-> filling_candidates[i], res |-> r2])
       IN IF _is_success(r2)
          THEN FallbackSuccess(r2, subs2, notes)
          ELSE IF IsNoneResult(r2)
          THEN FallbackFillings(v, i + 1, subs2, notes)
          ELSE IF IsUnsupportedFilling(r2)
          THEN FallbackFillings(v, i + 1, subs2, notes)
          ELSE [ret |-> NoneV, subs |-> subs2, notes |-> Append(notes, "rejected")]

\* place_trade(plan) against the venue answers v.  The result records the
\* return value, the order submissions made (in order) and the calls into
\* the notification sink.
place_trade(plan, v) ==
  LET open == <<"raw">>
      vol_ok == _round_volume_to_step(plan.lots, v.vmin, v.vmax, v.vstep)
      out(ret, subs, notes) == [ret |-> ret, subs |-> subs, notes |-> notes, vol |-> vol_ok]
  IN
  IF NOTIFY_ONLY \/ ~TRADE_ENABLED THEN out(NoneV, <<>>, open)
  ELSE IF plan.lots > FAT_FINGER_MAX_LOTS THEN out(NoneV, <<>>, open)
  ELSE IF v.si = "throws" THEN out(NoneV, <<>>, Append(open, "raw"))
  ELSE IF v.si = "none" THEN out(NoneV, <<>>, Append(open, "raw"))
  ELSE IF v.si = "notallowed" THEN out(NoneV, <<>>, Append(open, "raw"))
  ELSE IF vol_ok < v.vmin \/ vol_ok > v.vmax THEN out(NoneV, <<>>, Append(open, "raw"))
  ELSE IF ~v.tickBase THEN out(NoneV, <<>>, Append(open, "raw"))
  ELSE LET res == v.resp[1]
           subs == <<[mode |-> "DEFAULT", res |-> res]>>
       IN IF _is_success(res)
          THEN out(_extract_ticket_from_result(res), subs, open \o <<"raw", "result">>)
          ELSE IF ~IsNoneResult(res) /\ ~IsUnsupportedFilling(res)
          THEN out(NoneV, subs, Append(open, "rejected"))
          ELSE LET f == FallbackFillings(v, 1, subs, open)
               IN out(f.ret, f.subs, f.notes)

---------------------------------------------------------------------------
\* trade.py: manage_open_positions

\* sl0 is the stop the position was opened with; the venue does not report it
\* and the code never reads it
NoPos == [symbol |-> "", type |-> "", price_open |-> 0, sl |-> 0, sl0 |-> 0, volume |-> 0]

\* risk = abs(entry - sl) on the stop positions_get reports, 0.0 without a stop
PositionRisk(p) == IF p.sl = 0 THEN 0 ELSE Abs(p.price_open - p.sl)

IsOpen(book, t) == book[t] # NoPos

\* a variant whose comparison with the threshold is strict
RRAtLeast_Strict(move, risk, num, den) == den * move > num * risk

\* rr >= thr for thr = num/den, with rr = move / risk and risk > 0
RRAtLeast(move, risk, num, den) == den * move >= num * risk

\* trailing_r_mult * risk
TrailDist(risk) == (TRAILING_R_MULT_NUM * risk) \div TRAILING_R_MULT_DEN

\* the products of the sweep are exact on the integer price grid
TrailExact(risk) == (TRAILING_R_MULT_NUM * risk) % TRAILING_R_MULT_DEN = 0

\* The venue's handling of a TRADE_ACTION_SLTP request: it applies the new
\* stop, or answers with a rejection, or order_send raises.
SltpOutcomes == {"applied", "rejected", "throws"}

ApplySltp(p, new_sl, outcome) ==
  IF outcome = "applied" THEN [p EXCEPT !.sl = new_sl] ELSE p

\* mutant of BreakevenSends: the one-shot flag is not consulted
BreakevenSends_NoFlag(p, t, price, be) ==
  LET entry == p.price_open
      sl == p.sl
      risk == PositionRisk(p)
      move == IF p.type = "buy" THEN price - entry ELSE entry - price
  IN /\ USE_TRAILING
     /\ sl # 0
     /\ risk > 0
     /\ RRAtLeast(move, risk, BREAKEVEN_RR_NUM, BREAKEVEN_RR_DEN)
     /\ IF p.type = "buy" THEN sl < entry ELSE sl > entry

\* Break-even block (one-shot) for position p as read by positions_get.
\* Returns whether the request is sent and whether the flag is added.
BreakevenSends(p, t, price, be) ==
  LET entry == p.price_open
      sl == p.sl
      risk == PositionRisk(p)
      move == IF p.type = "buy" THEN price - entry ELSE entry - price
  IN /\ USE_TRAILING
     /\ sl # 0
     /\ risk > 0
     /\ RRAtLeast(move, risk, BREAKEVEN_RR_NUM, BREAKEVEN_RR_DEN)
     /\ t \notin be
     /\ IF p.type = "buy" THEN sl < entry ELSE sl > entry

\* mutant of TrailingNewSl: the new stop is not clamped to the current one
TrailingNewSl_NoClamp(p, price) ==
  LET entry == p.price_open
      sl == p.sl
      risk == PositionRisk(p)
      d == TrailDist(risk)
  IN IF ~(USE_TRAILING /\ sl # 0 /\ risk > 0) THEN 0
     ELSE IF p.type = "buy" /\ TRAILING_R_MULT_DEN * (price - entry) >= TRAILING_R_MULT_NUM * risk
     THEN IF price - d # sl THEN price - d ELSE 0
     ELSE IF p.type = "sell" /\ TRAILING_R_MULT_DEN * (entry - price) >= TRAILING_R_MULT_NUM * risk
     THEN IF price + d # sl THEN price + d ELSE 0
     ELSE 0

\* Trailing block: the new stop, or 0 when no request is sent.
TrailingNewSl(p, price) ==
  LET entry == p.price_open
      sl == p.sl
      risk == PositionRisk(p)
      d == TrailDist(risk)
  IN IF ~(USE_TRAILING /\ sl # 0 /\ risk > 0) THEN 0
     ELSE IF p.type = "buy" /\ TRAILING_R_MULT_DEN * (price - entry) >= TRAILING_R_MULT_NUM * risk
     THEN LET new_sl == Max2(sl, price - d)
          IN IF new_sl # sl THEN new_sl ELSE 0
     ELSE IF p.type = "sell" /\ TRAILING_R_MULT_DEN * (entry - price) >= TRAILING_R_MULT_NUM * risk
     THEN LET new_sl == Min2(sl, price + d)
          IN IF new_sl # sl THEN new_sl ELSE 0
     ELSE 0

\* One position of the sweep.  acc = [book, be, mods]; p is the snapshot
\* positions_get returned; x = [price, beOut, trOut] are the venue's answers
\* (price 0: symbol_info_tick returned nothing).
ManageOne(acc, t, p, x) ==
  IF x.price = 0 THEN acc
  ELSE
  LET beSend == BreakevenSends(p, t, x.price, acc.be)
      book1 == IF beSend
               THEN [acc.book EXCEPT ![t] = ApplySltp(@, p.price_open, x.beOut)]
               ELSE acc.book
      be1 == IF beSend /\ x.beOut # "throws" THEN acc.be \cup {t} ELSE acc.be
      mods1 == IF beSend
               THEN Append(acc.mods, [ticket |-> t, kind |-> "breakeven", type |-> p.type,
                                      cur |-> acc.book[t].sl, new |-> p.price_open,
                                      out |-> x.beOut, price |-> x.price,
                                      risk |-> PositionRisk(p)])
               ELSE acc.mods
      new_sl == TrailingNewSl(p, x.price)
      book2 == IF new_sl # 0
               THEN [book1 EXCEPT ![t] = ApplySltp(@, new_sl, x.trOut)]
               ELSE book1
      mods2 == IF new_sl # 0
               THEN Append(mods1, [ticket |-> t, kind |-> "trailing", type |-> p.type,
                                   cur |-> book1[t].sl, new |-> new_sl,
                                   out |-> x.trOut, price |-> x.price,
                                   risk |-> PositionRisk(p)])
               ELSE mods1
  IN [book |-> book2, be |-> be1, mods |-> mods2]

\* for p in pos_list, in ticket order, over the snapshot `snap`
RECURSIVE ManageFrom(_, _, _, _)
ManageFrom(acc, t, snap, xs) ==
  IF t > MaxTickets THEN acc
  ELSE IF snap[t] = NoPos THEN ManageFrom(acc, t + 1, snap, xs)
  ELSE ManageFrom(ManageOne(acc, t, snap[t], xs[t]), t + 1, snap, xs)

manage_open_positions(book, be, xs) ==
  ManageFrom([book |-> book, be |-> be, mods |-> <<>>], 1, book, xs)

\* Partial take-profit block.  Volumes are in 0.01 lot; the desired volume
\* vol * percent / 100 is kept in 1e-4 lot so that nothing is lost before the
\* floor.  x.vmin, x.vstep: the venue's minimum and step, which symbol_info
\* reports unless it returns None (x.siNone).  x.lowStep: the float
\* quotient (vol - vol_min) / vol_step of an exact multiple came out just below
\* the integer, so that math.floor yields one step less.
\* vol_min and vol_step as the block reads them: getattr on None yields the
\* defaults PARTIAL_TP_MIN_LOT and 0.01
VolumeInfo(x) ==
  IF x.siNone THEN [x EXCEPT !.vmin = PARTIAL_TP_MIN_LOT, !.vstep = 1] ELSE x

PartialVolume(vol, x) ==
  LET exact == _round_volume_to_step(vol * PARTIAL_TP_PERCENT, 100 * x.vmin, 100 * vol,
                                     100 * x.vstep) \div 100
  IN IF x.lowStep THEN exact - x.vstep ELSE exact

\* the clamped desired volume is a whole number (at least one) of steps above
\* the minimum: the case in which the float quotient may fall short
LowStepPossible(vol, x) ==
  LET v == Max2(100 * x.vmin, Min2(vol * PARTIAL_TP_PERCENT, 100 * vol))
  IN /\ x.vstep > 0
     /\ v > 100 * x.vmin
     /\ (v - 100 * x.vmin) % (100 * x.vstep) = 0

\* partial_vol >= vol_min and partial_vol < vol - 1e-9
PartialValid(partial_vol, vol, vmin) ==
  partial_vol >= vmin /\ partial_vol < vol

\* the conditions under which the block reaches the volume computation
PartialDue(p, t, price, pset, enabled) ==
  LET risk == PositionRisk(p)
      move == IF p.type = "buy" THEN price - p.price_open ELSE p.price_open - price
  IN /\ enabled
     /\ risk > 0
     /\ RRAtLeast(move, risk, PARTIAL_TP_RR_NUM, PARTIAL_TP_RR_DEN)
     /\ t \notin pset

\* whether the opposite-side market order is submitted
PartialSends(p, t, x, pset, enabled) ==
  /\ PartialDue(p, t, x.price, pset, enabled)
  /\ PartialValid(PartialVolume(p.volume, VolumeInfo(x)), p.volume, VolumeInfo(x).vmin)

\* a variant that sets the flag whenever the order was submitted
PartialFlagged_OnSend(sent, out) == sent

\* the flag is added when order_send returned an accepting retcode
PartialFlagged(sent, out) == sent /\ out = "accepted"

\* One position of the sweep with all three blocks: break-even, partial
\* take-profit, trailing.  The partial close changes the volume only, the other
\* two the stop only, and all three read the position as positions_get returned it.
ManageOnePartial(acc, t, p, x, enabled) ==
  LET a == ManageOne([book |-> acc.book, be |-> acc.be, mods |-> acc.mods], t, p, x)
      due == x.price # 0 /\ PartialDue(p, t, x.price, acc.pset, enabled)
      sent == x.price # 0 /\ PartialSends(p, t, x, acc.pset, enabled)
      pv == PartialVolume(p.volume, VolumeInfo(x))
      flagged == PartialFlagged(sent, x.ptOut)
  IN [book |-> IF sent /\ x.ptOut = "accepted"
               THEN [a.book EXCEPT ![t].volume = @ - pv]
               ELSE a.book,
      be |-> a.be,
      mods |-> a.mods,
      pset |-> IF flagged THEN acc.pset \cup {t} ELSE acc.pset,
      closes |-> IF due
                 THEN Append(acc.closes, [ticket |-> t, volume |-> pv, full |-> p.volume,
                                          vmin |-> x.vmin, vstep |-> x.vstep,
                                          out |-> IF sent THEN x.ptOut ELSE "skipped"])
                 ELSE acc.closes]

\* a variant in which an order_send that raises ends the sweep
RECURSIVE ManagePartialFrom_AbortOnThrow(_, _, _, _, _)
ManagePartialFrom_AbortOnThrow(acc, t, snap, xs, enabled) ==
  IF t > MaxTickets THEN acc
  ELSE IF snap[t] = NoPos THEN ManagePartialFrom_AbortOnThrow(acc, t + 1, snap, xs, enabled)
  ELSE LET r == ManageOnePartial(acc, t, snap[t], xs[t], enabled)
       IN IF xs[t].beOut = "throws" \/ xs[t].ptOut = "throws" THEN r
          ELSE ManagePartialFrom_AbortOnThrow(r, t + 1, snap, xs, enabled)

\* for p in pos_list, each inside its own try
RECURSIVE ManagePartialFrom(_, _, _, _, _)
ManagePartialFrom(acc, t, snap, xs, enabled) ==
  IF t > MaxTickets THEN acc
  ELSE IF snap[t] = NoPos THEN ManagePartialFrom(acc, t + 1, snap, xs, enabled)
  ELSE ManagePartialFrom(ManageOnePartial(acc, t, snap[t], xs[t], enabled), t + 1, snap, xs,
                         enabled)

\* manage_open_positions with the partial take-profit block switched by enabled
manage_open_positions_all(book, be, pset, xs, enabled) ==
  ManagePartialFrom([book |-> book, be |-> be, mods |-> <<>>, pset |-> pset,
                     closes |-> <<>>], 1, book, xs, enabled)

\* the inputs keep every product of the sweep on the integer grid
SweepExact(book, xs) ==
  \A t \in Tickets :
    (IsOpen(book, t) /\ xs[t].price # 0 /\ TrailingNewSl(book[t], xs[t].price) # 0)
      => TrailExact(Abs(book[t].price_open - book[t].sl))

---------------------------------------------------------------------------
\* risk.py: risk_gates_ok

\* closed_today['pnl'].sum()
RECURSIVE SumSeq(_)
SumSeq(q) == IF q = <<>> THEN 0 ELSE q[1] + SumSeq(Tail(q))

\* metrics.py: h.fails: mt5.history_deals_get raised; h.pnl: the sum of the
\* exit deals the venue reports for today. The failure is caught here and
\* answered with a sum of 0.
_sum_deals_pnl_mt5(h) == IF h.fails THEN 0 ELSE h.pnl

\* metrics.py: the journal is read only when the first block raises; closed is
\* the pnl column of today's closed rows, oldest first
daily_pnl_from_logs(h, closed) ==
  LET first == [raised |-> FALSE, pnl |-> _sum_deals_pnl_mt5(h)]
  IN IF ~first.raised THEN first.pnl ELSE SumSeq(closed)

\* risk.py: the number of losing rows at the end of today's closed rows
RECURSIVE consecutive_losses_today(_)
consecutive_losses_today(closed) ==
  IF closed = <<>> THEN 0
  ELSE IF closed[Len(closed)] < 0
       THEN 1 + consecutive_losses_today(SubSeq(closed, 1, Len(closed) - 1))
       ELSE 0

\* a variant whose drawdown comparison is strict
DrawdownHit_Strict(es, equity) ==
  IF es > 0 THEN 100 * (es - equity) > MAX_DRAWDOWN_PCT_x100 * es
  ELSE es - equity > 0

\* dd = (equity_start - equity) / max(1e-9, equity_start); dd >= MAX_DRAWDOWN_PCT
DrawdownHit(es, equity) ==
  IF es > 0 THEN 100 * (es - equity) >= MAX_DRAWDOWN_PCT_x100 * es
  ELSE es - equity > 0

\* a variant that returns after the daily-loss check
risk_gates_ok_NoCons(es, balance, equity, d) ==
  IF DrawdownHit(es, equity) THEN FALSE
  ELSE IF ~d.pnlFails /\ d.pnl < 0 /\ 100 * Abs(d.pnl) >= MAX_DAILY_LOSS_PCT_x100 * balance
  THEN FALSE
  ELSE TRUE

\* d.pnlFails / d.consFails: the journal or history read raised
risk_gates_ok(es, balance, equity, d) ==
  IF DrawdownHit(es, equity) THEN FALSE
  ELSE IF ~d.pnlFails /\ d.pnl < 0 /\ 100 * Abs(d.pnl) >= MAX_DAILY_LOSS_PCT_x100 * balance
  THEN FALSE
  ELSE IF ~d.consFails /\ d.cons >= CONSECUTIVE_LOSS_LIMIT THEN FALSE
  ELSE TRUE

---------------------------------------------------------------------------
\* executor.py

\* round(x, 5) of a price given in 1e-6 units (ties to even)
Round5(e) ==
  LET q == e \div 10
      r == e % 10
  IN IF r < 5 THEN q * 10
     ELSE IF r > 5 THEN (q + 1) * 10
     ELSE IF q % 2 = 0 THEN q * 10 ELSE (q + 1) * 10

_plan_signature(plan) == <<plan.symbol, plan.direction, Round5(plan.entry_price)>>

\* main.plan_signature
plan_signature(plan) == <<plan.symbol, plan.direction, Round5(plan.entry_price)>>

OpenCount(book, symbol) == Cardinality({t \in Tickets : book[t].symbol = symbol})

\* queryFails: mt5.positions_get raised
_has_open_trade(book, symbol, queryFails) ==
  IF queryFails THEN FALSE
  ELSE OpenCount(book, symbol) >= MAX_POSITIONS_PER_SYMBOL

\* last = _last_open_time.get(symbol, 0)
_can_open_now(last, t, cd) == (t - last) >= cd

\* truthiness of a ticket value (None and 0 are false)
Truthy(ticket) == ticket # NoneV /\ ticket # 0

\* mutant of tick_symbol: warm-up ends one tick early
tick_symbol_Early(was_started, c) ==
  IF c >= STARTUP_PROTECTION_CYCLES THEN TRUE ELSE was_started

\* tick_symbol: the new value of _started[symbol] after the c-th tick
tick_symbol(was_started, c) ==
  IF c > STARTUP_PROTECTION_CYCLES THEN TRUE ELSE was_started

\* mutant of reason_no_open: the rising-edge test is missing
reason_no_open_NoEdge(is_started, prev_sig, has_open, can_open) ==
  IF ~is_started THEN "startup_protection"
  ELSE IF has_open THEN "existing_position"
  ELSE IF ~can_open THEN "cooldown"
  ELSE ""

\* the decision part of execute_plan: "" when place_trade is to be called
reason_no_open(is_started, prev_sig, has_open, can_open) ==
  IF ~is_started THEN "startup_protection"
  ELSE IF prev_sig THEN "no_rising_edge"
  ELSE IF has_open THEN "existing_position"
  ELSE IF ~can_open THEN "cooldown"
  ELSE ""

\* execute_plan's own call into the notification sink
exec_notes(ticket) == IF Truthy(ticket) THEN <<"result">> ELSE <<"rejected">>

\* mutant of signal_after: the flag is set only when a trade was opened
signal_after_OnlyOpened(ticket) == Truthy(ticket)

\* _last_signal[symbol] at the end of execute_plan: True in both branches
signal_after(ticket) == TRUE

\* should_write of execute_plan
should_write(ticket, last_sig, sig) == Truthy(ticket) \/ last_sig # sig

\* main.trading_loop: `if ticket: _last_plan_signature[s] = sig`
acted_signature(ticket, old, sig) == IF Truthy(ticket) THEN sig ELSE old

\* execute_plan: `if ticket: _last_open_time[symbol] = time.time()`
open_time_after(ticket, old, t) == IF Truthy(ticket) THEN t ELSE old

PositionType(direction) ==
  IF direction \in {"long", "buy", "bull"} THEN "buy" ELSE "sell"

\* init_trade_row(plan, ticket)["status"]
RowStatus(ticket) == IF Truthy(ticket) THEN "opened" ELSE "skipped"

\* an empty journal
NoRows == [day |-> 0, week |-> 0, dayOpened |-> 0, weekOpened |-> 0]

\* no risk gate evaluated
NoGate == [ok |-> TRUE, evaluated |-> FALSE]

\* risk.trade_limits_ok over the journal's rows (no caller in main.py,
\* executor.py or trade.py)
trade_limits_ok(j) == j.day < MAX_TRADES_PER_DAY /\ j.week < MAX_TRADES_PER_WEEK

\* append_journal(row): one more row dated today and in this week
append_journal(j, status) ==
  [day |-> j.day + 1, week |-> j.week + 1,
   dayOpened |-> IF status = "opened" THEN j.dayOpened + 1 ELSE j.dayOpened,
   weekOpened |-> IF status = "opened" THEN j.weekOpened + 1 ELSE j.weekOpened]

\* index of the accepted submission of a place_trade outcome, 0 when none
AcceptedAt(r) ==
  IF \E i \in 1..Len(r.subs) : _is_success(r.subs[i].res)
  THEN CHOOSE i \in 1..Len(r.subs) : _is_success(r.subs[i].res)
  ELSE 0

NoPlace == [ret |-> NoneV, subs |-> <<>>, notes |-> <<>>, vol |-> 0]

---------------------------------------------------------------------------
\* Inputs: what the venue and the signal builder may answer

Done(deal, order) == [rc |-> RC_DONE, filling |-> FALSE, deal |-> deal, order |-> order]
Rejected(rc, filling) == [rc |-> rc, filling |-> filling, deal |-> 0, order |-> 0]

\* answers of order_send to a market order that would get id k
Responses(k) ==
  { NoResult,
    Raised,
    Done(k, k),
    [rc |-> RC_OK, filling |-> FALSE, deal |-> 0, order |-> k],
    Done(0, 0),
    Rejected(RC_UNSUPPORTED_FILLING, FALSE),
    Rejected(10006, TRUE),
    Rejected(10006, FALSE) }

AllNone == [i \in 1..4 |-> NoResult]
AllTicks == [i \in 1..3 |-> TRUE]

Preflight(si, vmin, vmax, vstep, tickBase) ==
  [si |-> si, vmin |-> vmin, vmax |-> vmax, vstep |-> vstep, tickBase |-> tickBase]

Answer(pre, resp, tickAlt, fill) ==
  [si |-> pre.si, vmin |-> pre.vmin, vmax |-> pre.vmax, vstep |-> pre.vstep,
   tickBase |-> pre.tickBase, resp |-> resp, tickAlt |-> tickAlt, fill |-> fill]

PreOk == Preflight("ok", 1, 10000, 1, TRUE)

\* volume_min, volume_max, volume_step of symbol_info that do not admit every
\* planned volume: a minimum above it, a maximum below it, a coarser grid
VolumeLimits ==
  { Preflight("ok", 20, 10000, 5, TRUE),
    Preflight("ok", 1, 8, 1, TRUE),
    Preflight("ok", 4, 10000, 4, TRUE) }

\* every venue behaviour towards one place_trade call
PlaceAnswers(k) ==
  { Answer(PreOk, resp, ta, 1105100) :
      resp \in [1..4 -> Responses(k)], ta \in [1..3 -> BOOLEAN] }
  \cup
  { Answer(pre, AllNone, AllTicks, 1105100) :
      pre \in { Preflight("throws", 1, 10000, 1, TRUE),
                Preflight("none", 1, 10000, 1, TRUE),
                Preflight("notallowed", 1, 10000, 1, TRUE),
                Preflight("ok", 10, 5, 1, TRUE),
                Preflight("ok", 1, 10000, 1, FALSE) } }
  \cup
  { Answer(pre, [AllNone EXCEPT ![1] = r], AllTicks, 1105100) :
      pre \in VolumeLimits, r \in {Done(k, k), Rejected(10006, FALSE)} }

\* the venue behaviours explored inside the trading loop
LoopAnswers(k) ==
  { Answer(PreOk, [AllNone EXCEPT ![1] = Done(k, k)], AllTicks, 1105100),
    Answer(PreOk, [AllNone EXCEPT ![1] = Done(0, 0)], AllTicks, 1105100),
    Answer(PreOk, [AllNone EXCEPT ![1] = Rejected(10006, FALSE)], AllTicks, 1105100),
    Answer(PreOk, [AllNone EXCEPT ![1] = Rejected(RC_UNSUPPORTED_FILLING, FALSE),
                                  ![2] = Done(k, k)], AllTicks, 1105100),
    Answer(PreOk, AllNone, AllTicks, 1105100),
    Answer(PreOk, [AllNone EXCEPT ![1] = Raised, ![2] = Rejected(10006, FALSE)],
           AllTicks, 1105100),
    Answer(Preflight("none", 1, 10000, 1, TRUE), AllNone, AllTicks, 1105100) }

Plan(symbol, direction, entry, sl, tp, lots) ==
  [symbol |-> symbol, direction |-> direction, entry_price |-> entry,
   sl |-> sl, tp |-> tp, lots |-> lots]

\* plans build_plan may return for instrument s: in the runs explored the signal
\* builder finds signals on the first instrument only
LoopPlans(s) ==
  IF s = SYMBOLS[1]
  THEN { Plan(s, "long", 1105100, 1100100, 1115100, 10),
         Plan(s, "long", 1105103, 1100100, 1115100, 10),
         Plan(s, "short", 1105200, 1110100, 1095100, 10) }
  ELSE {}

PlacePlans ==
  { Plan("EURUSD", "long", 1105100, 1100100, 1115100, 10),
    Plan("EURUSD", "short", 1105200, 1110100, 1095100, 600) }

\* account and journal readings at the risk gate
GateInputs ==
  { [equity |-> e, balance |-> 10000, pnlFails |-> FALSE, pnl |-> 0,
     consFails |-> FALSE, cons |-> 0] : e \in {10000, 9150} }

\* pnl columns of today's closed journal rows, oldest first
MaxClosedRows == 3
ClosedRows == UNION { [1..n -> {0 - 150, 0 - 50, 60}] : n \in 0..MaxClosedRows }

\* venue history answers: the query raises, or the exit deals of today sum to pnl
HistoryAnswers ==
  {[fails |-> TRUE, pnl |-> 0]} \cup
  { [fails |-> FALSE, pnl |-> p] : p \in {0 - 200, 0 - 199, 0, 60} }

\* one risk_gates_ok call: the account readings and what the history and the
\* journal hold; consFails: reading the journal raised (other than file not found)
RiskInputs ==
  [es : {0, 10000}, balance : {10000}, equity : {9150, 9200, 9201, 10000},
   h : HistoryAnswers, closed : ClosedRows, consFails : BOOLEAN]

\* ticks seen by the sweep inside the loop
LoopPrices == {1100100, 1105100, 1110100}
LoopOutcomes == {"applied", "rejected"}

\* ticks of a stand-alone sweep (price 0: no tick)
ManagePrices == {0, 1095000, 1102500, 1105000, 1110000}

NoTicks == [t \in Tickets |-> 0]

IdleInput == [price |-> 0, beOut |-> "applied", trOut |-> "applied"]

\* the answers the venue can give while position p (ticket t) is handled: a tick,
\* and an outcome for each stop modification that is sent at that tick (an
\* order_send that raises in the trailing block has the effect of a rejection)
TicketInputs(p, t, be, prices, outs) ==
  { x \in [price : prices, beOut : outs, trOut : outs \ {"throws"}] :
      /\ (x.price = 0 \/ ~BreakevenSends(p, t, x.price, be)) => x.beOut = "applied"
      /\ (x.price = 0 \/ TrailingNewSl(p, x.price) = 0) => x.trOut = "applied" }

\* one input per open position, indexed by ticket
RECURSIVE SweepInputsFrom(_, _, _, _, _)
SweepInputsFrom(t, book, be, prices, outs) ==
  IF t > MaxTickets THEN {<<>>}
  ELSE { <<x>> \o rest :
           x \in (IF IsOpen(book, t) THEN TicketInputs(book[t], t, be, prices, outs)
                  ELSE {IdleInput}),
           rest \in SweepInputsFrom(t + 1, book, be, prices, outs) }

SweepInputs(book, be, prices, outs) == SweepInputsFrom(1, book, be, prices, outs)

\* positions found open when a stand-alone sweep starts
ManagePositions ==
  { [symbol |-> "EURUSD", type |-> "buy", price_open |-> 1100000, sl |-> 1095000, sl0 |-> 1095000, volume |-> 10],
    [symbol |-> "EURUSD", type |-> "sell", price_open |-> 1100000, sl |-> 1105000, sl0 |-> 1105000, volume |-> 10],
    [symbol |-> "EURUSD", type |-> "buy", price_open |-> 1100000, sl |-> 0, sl0 |-> 0, volume |-> 10] }
ManageBooks ==
  { b \in [Tickets -> ManagePositions \cup {NoPos}] :
      Cardinality({t \in Tickets : b[t] # NoPos}) <= MAX_POSITIONS_PER_SYMBOL }

\* books execute_plan may find: k positions open on the first instrument
ExecBooks ==
  { [t \in Tickets |->
       IF t <= k
       THEN [symbol |-> SYMBOLS[1], type |-> "buy", price_open |-> 1100000,
             sl |-> 1095000, sl0 |-> 1095000, volume |-> 10]
       ELSE NoPos] : k \in 0..MAX_POSITIONS_PER_SYMBOL }

\* journals execute_plan may find: empty, or with the day's / the week's rows
\* all 'opened' and as many as the configured caps
ExecJournals ==
  { NoRows,
    [day |-> MAX_TRADES_PER_DAY, week |-> MAX_TRADES_PER_DAY,
     dayOpened |-> MAX_TRADES_PER_DAY, weekOpened |-> MAX_TRADES_PER_DAY],
    [day |-> 0, week |-> MAX_TRADES_PER_WEEK,
     dayOpened |-> 0, weekOpened |-> MAX_TRADES_PER_WEEK] }

CooldownChoices == {COOLDOWN_DEFAULT, 3 * COOLDOWN_DEFAULT}

---------------------------------------------------------------------------
\* Initial state: module globals as the interpreter leaves them after import

NoExec == [symbol |-> "", sig |-> NoSig, attempt |-> FALSE, reason |-> "", ret |-> NoneV,
           notes |-> <<>>, row |-> "none", at |-> NoneV, prevOpen |-> NoneV,
           openBefore |-> 0, queryFails |-> FALSE, jprev |-> NoSig, journalBefore |-> NoRows,
           since |-> "none"]

\* denied: the risk gate denied; built: build_plan was called; managed: sweeps run
NoCyc == [denied |-> FALSE, built |-> FALSE, managed |-> 0, unavailable |-> 0, raised |-> 0]

\* placedSig / prevPlacedSig: signature of the plan place_trade was invoked for in
\* this / the previous loop iteration; venueOpen: when the venue last accepted an order
\* since: what execute_plan did with the instrument's plans since the plan builder
\* last returned None: "none" nothing yet, "placed" place_trade was invoked,
\* "blocked" every plan was declined
NoHist == [placedSig |-> NoSig, prevPlacedSig |-> NoSig, venueOpen |-> NoneV,
           since |-> "none"]

NoCall == [plan |-> Plan("", "", 0, 0, 0, 0), v |-> Answer(PreOk, AllNone, AllTicks, 0)]

InitBase ==
  /\ positions = [t \in Tickets |-> NoPos]
  /\ nextTicket = 1
  /\ now = StartTime
  /\ bars_seen = [s \in SymbolSet |-> 0]
  /\ started = [s \in SymbolSet |-> FALSE]
  /\ last_signal = [s \in SymbolSet |-> FALSE]
  /\ last_open_time = [s \in SymbolSet |-> 0]
  /\ journal_sig = [s \in SymbolSet |-> NoSig]
  /\ journal = NoRows
  /\ lastGate = NoGate
  /\ callOut = NoneV
  /\ stop = FALSE
  /\ slept = 0
  /\ idx = 1
  /\ cycle = 0
  /\ last_plan_sig = [s \in SymbolSet |-> NoSig]
  /\ breakeven_set = {}
  /\ partial_closed = {}
  /\ closes = <<>>
  /\ lastPlace = NoPlace
  /\ lastExec = NoExec
  /\ mods = <<>>
  /\ seen = NoTicks
  /\ cyc = NoCyc
  /\ hist = [s \in SymbolSet |-> NoHist]
  /\ last_history_check = StartTime - HISTORY_LOOKBACK_SECONDS
  /\ deals = {}
  /\ closed_rows = {}

Init ==
  /\ InitBase
  /\ pc = "gate"
  /\ cooldown \in CooldownChoices
  /\ equity_start = 10000
  /\ callIn = NoCall

---------------------------------------------------------------------------
\* main.py: trading_loop, one action per stretch of an iteration

ShiftHist ==
  [s \in SymbolSet |->
     [hist[s] EXCEPT !.prevPlacedSig = hist[s].placedSig, !.placedSig = NoSig]]

\* lastPlace, lastExec and mods describe the step just taken
NoCallObserved == lastPlace' = NoPlace /\ lastExec' = NoExec
NoSweepObserved == mods' = <<>> /\ seen' = NoTicks /\ closes' = <<>>

\* risk_gates_ok is false: message, sleep, `continue`
GateDenied ==
  /\ pc = "gate"
  /\ cycle < MaxCycles
  /\ \E g \in GateInputs :
       ~risk_gates_ok(equity_start, g.balance, g.equity, g)
  /\ cycle' = cycle + 1
  /\ cyc' = [NoCyc EXCEPT !.denied = TRUE]
  /\ hist' = ShiftHist
  /\ now' = now + POLL_INTERVAL_SECONDS
  /\ NoCallObserved /\ NoSweepObserved
  /\ UNCHANGED <<positions, nextTicket, execVars, pc, idx, last_plan_sig, cooldown, scanVars, stop, slept,
                 equity_start, tradeVars, callVars>>

GatePassed ==
  /\ pc = "gate"
  /\ cycle < MaxCycles
  /\ \E g \in GateInputs :
       risk_gates_ok(equity_start, g.balance, g.equity, g)
  /\ cycle' = cycle + 1
  /\ cyc' = NoCyc
  /\ hist' = ShiftHist
  /\ pc' = "symbols"
  /\ idx' = 1
  /\ NoCallObserved /\ NoSweepObserved
  /\ UNCHANGED <<venueVars, execVars, last_plan_sig, cooldown, scanVars, stop, slept, equity_start,
                 tradeVars, callVars>>

\* where the loop goes after the instrument at idx
\* the end of the body of `for s in SYMBOLS` for the instrument at index i
NextInstrument(i) == IF i = Len(SYMBOLS) THEN "manage" ELSE "symbols"

\* `except Exception: log_error(...); continue` around tick_symbol and build_plan
OnBuildError_Propagates(i) == "crashed"

OnBuildError(i) == NextInstrument(i)

\* to: where the loop goes; u: the index of the instrument when its data fetch
\* failed in this step, else 0; r: its index when building its plan raised, else 0
\* (cyc keeps the last such index of the iteration)
AfterSymbolTo(to, u, r) ==
  /\ idx' = idx + 1
  /\ pc' = to
  /\ cyc' = [cyc EXCEPT !.built = TRUE,
                        !.unavailable = IF u # 0 THEN u ELSE @,
                        !.raised = IF r # 0 THEN r ELSE @]
  /\ NoSweepObserved
  /\ UNCHANGED <<cycle, cooldown, scanVars, stop, slept, equity_start, tradeVars, callVars>>

AfterSymbol == AfterSymbolTo(NextInstrument(idx), 0, 0)

TickSymbol(s) ==
  /\ bars_seen' = [bars_seen EXCEPT ![s] = @ + 1]
  /\ started' = [started EXCEPT ![s] = tick_symbol(@, bars_seen[s] + 1)]

\* build_plan raises: logged, `continue`
SymbolBuildFails ==
  /\ pc = "symbols"
  /\ TickSymbol(SYMBOLS[idx])
  /\ AfterSymbolTo(OnBuildError(idx), 0, idx)
  /\ NoCallObserved
  /\ UNCHANGED <<venueVars, last_signal, last_open_time, journal_sig, journal, last_plan_sig, hist>>

\* build_plan returns None: clear_signal
SymbolNoPlan ==
  /\ pc = "symbols"
  /\ TickSymbol(SYMBOLS[idx])
  /\ last_signal' = [last_signal EXCEPT ![SYMBOLS[idx]] = FALSE]
  /\ hist' = [hist EXCEPT ![SYMBOLS[idx]].since = "none"]
  /\ AfterSymbol
  /\ NoCallObserved
  /\ UNCHANGED <<venueVars, last_open_time, journal_sig, journal, last_plan_sig>>

\* fetch_rates raises inside the plan builder, which returns None: the loop
\* treats it as any other missing plan (tick_symbol before, clear_signal after)
SymbolDataUnavailable ==
  /\ pc = "symbols"
  /\ TickSymbol(SYMBOLS[idx])
  /\ last_signal' = [last_signal EXCEPT ![SYMBOLS[idx]] = FALSE]
  /\ hist' = [hist EXCEPT ![SYMBOLS[idx]].since = "none"]
  /\ AfterSymbolTo(NextInstrument(idx), idx, 0)
  /\ NoCallObserved
  /\ UNCHANGED <<venueVars, last_open_time, journal_sig, journal, last_plan_sig>>

\* the plan's signature equals _last_plan_signature[s]: skipped
SymbolDuplicate ==
  /\ pc = "symbols"
  /\ \E plan \in LoopPlans(SYMBOLS[idx]) :
       last_plan_sig[SYMBOLS[idx]] = plan_signature(plan)
  /\ TickSymbol(SYMBOLS[idx])
  /\ AfterSymbol
  /\ NoCallObserved
  /\ UNCHANGED <<venueVars, last_signal, last_open_time, journal_sig, journal, last_plan_sig, hist>>

\* execute_plan(plan) for instrument s whose _started flag reads is_started;
\* qf: the open-positions query fails; v: the venue's answers to place_trade
ExecutePlan(s, is_started, plan, qf, v) ==
  LET sig == _plan_signature(plan)
      reason == reason_no_open(is_started, last_signal[s],
                               _has_open_trade(positions, s, qf),
                               _can_open_now(last_open_time[s], now, cooldown))
      attempt == reason = ""
      r == IF attempt THEN place_trade(plan, v) ELSE NoPlace
      ticket == r.ret
      opened == AcceptedAt(r) # 0
      write == should_write(ticket, journal_sig[s], sig)
  IN /\ opened => nextTicket <= MaxTickets
     /\ last_open_time' = [last_open_time EXCEPT ![s] = open_time_after(ticket, @, now)]
     /\ journal_sig' = IF write THEN [journal_sig EXCEPT ![s] = sig] ELSE journal_sig
     /\ journal' = IF write THEN append_journal(journal, RowStatus(ticket)) ELSE journal
     /\ last_signal' = [last_signal EXCEPT ![s] = signal_after(ticket)]
     /\ positions' = IF opened
                     THEN [positions EXCEPT ![nextTicket] =
                             [symbol |-> s, type |-> PositionType(plan.direction),
                              price_open |-> v.fill, sl |-> plan.sl, sl0 |-> plan.sl,
                              volume |-> r.vol]]
                     ELSE positions
     /\ nextTicket' = IF opened THEN nextTicket + 1 ELSE nextTicket
     /\ lastPlace' = r
     /\ lastExec' = [symbol |-> s, sig |-> sig, attempt |-> attempt, reason |-> reason,
                     ret |-> ticket, notes |-> r.notes \o exec_notes(ticket),
                     row |-> IF write THEN RowStatus(ticket) ELSE "none",
                     at |-> now, prevOpen |-> hist[s].venueOpen,
                     openBefore |-> OpenCount(positions, s), queryFails |-> qf,
                     jprev |-> journal_sig[s], journalBefore |-> journal,
                     since |-> hist[s].since]

\* a new plan: execute_plan(plan), then `if ticket: _last_plan_signature[s] = sig`
SymbolExecute ==
  /\ pc = "symbols"
  /\ LET s == SYMBOLS[idx]
     IN \E plan \in LoopPlans(s), qf \in BOOLEAN, v \in LoopAnswers(nextTicket) :
          LET sig == plan_signature(plan)
              attempt == lastExec'.attempt
              ticket == lastExec'.ret
          IN /\ last_plan_sig[s] # sig
             /\ TickSymbol(s)
             /\ ExecutePlan(s, tick_symbol(started[s], bars_seen[s] + 1), plan, qf, v)
             /\ last_plan_sig' = [last_plan_sig EXCEPT ![s] = acted_signature(ticket, @, sig)]
             /\ hist' = [hist EXCEPT ![s].placedSig = IF attempt THEN sig ELSE @,
                                     ![s].since = IF attempt THEN "placed"
                                                  ELSE IF @ = "none" THEN "blocked" ELSE @,
                                     ![s].venueOpen = IF positions' # positions THEN now ELSE @]
  /\ AfterSymbol
  /\ UNCHANGED now

\* manage_open_positions(use_trailing, trailing_r_mult)
Manage ==
  /\ pc = "manage"
  /\ \E xs \in SweepInputs(positions, breakeven_set, LoopPrices, LoopOutcomes) :
       /\ SweepExact(positions, xs)
       /\ LET m == manage_open_positions(positions, breakeven_set, xs)
          IN /\ positions' = m.book
             /\ breakeven_set' = m.be
             /\ mods' = m.mods
             /\ seen' = NoTicks
             /\ closes' = <<>>
  /\ UNCHANGED partial_closed
  /\ cyc' = [cyc EXCEPT !.managed = @ + 1]
  /\ pc' = "sleep"
  /\ NoCallObserved
  /\ UNCHANGED <<nextTicket, now, execVars, idx, cycle, last_plan_sig, cooldown, scanVars, stop, slept,
                 equity_start, callVars, hist>>

\* positions_get raises inside manage_open_positions: caught by the loop
ManageFails ==
  /\ pc = "manage"
  /\ cyc' = [cyc EXCEPT !.managed = @ + 1]
  /\ pc' = "sleep"
  /\ NoCallObserved /\ NoSweepObserved
  /\ UNCHANGED <<venueVars, execVars, idx, cycle, last_plan_sig, cooldown, scanVars, stop, slept,
                 equity_start, tradeVars, callVars, hist>>

\* the poll-interval sleep at the end of the iteration
Sleep ==
  /\ pc = "sleep"
  /\ now' = now + POLL_INTERVAL_SECONDS
  /\ pc' = "gate"
  /\ NoCallObserved /\ NoSweepObserved
  /\ UNCHANGED <<positions, nextTicket, execVars, idx, cycle, last_plan_sig, cooldown, scanVars, stop, slept,
                 equity_start, tradeVars, callVars, cyc, hist>>

\* the venue closes a position (stop, target or manual close) while the loop sleeps
VenueCloses(t) ==
  /\ pc = "sleep"
  /\ IsOpen(positions, t)
  /\ positions' = [positions EXCEPT ![t] = NoPos]
  /\ NoCallObserved /\ NoSweepObserved
  /\ UNCHANGED <<nextTicket, now, execVars, loopVars, tradeVars, callVars, cyc, hist>>

Next ==
  \/ GateDenied
  \/ GatePassed
  \/ SymbolBuildFails
  \/ SymbolNoPlan
  \/ SymbolDataUnavailable
  \/ SymbolDuplicate
  \/ SymbolExecute
  \/ Manage
  \/ ManageFails
  \/ Sleep
  \/ \E t \in Tickets : VenueCloses(t)

Spec == Init /\ [][Next]_vars

---------------------------------------------------------------------------
\* place_trade on its own: the inputs are drawn in the initial state, the
\* action is one call

InitPlace ==
  /\ InitBase
  /\ pc = "call"
  /\ cooldown = COOLDOWN_DEFAULT
  /\ equity_start = 10000
  /\ callIn \in [plan : PlacePlans, v : PlaceAnswers(1)]

PlaceCall ==
  /\ pc = "call"
  /\ lastPlace' = place_trade(callIn.plan, callIn.v)
  /\ pc' = "returned"
  /\ UNCHANGED <<venueVars, execVars, idx, cycle, last_plan_sig, cooldown, scanVars, stop, slept, equity_start,
                 tradeVars, callVars, lastExec, mods, seen, closes, cyc, hist>>

NextPlace == PlaceCall

SpecPlace == InitPlace /\ [][NextPlace]_vars

---------------------------------------------------------------------------
\* manage_open_positions on its own: repeated sweeps over a book of positions
\* found open, with any ticks and any venue outcomes between and during sweeps

InitManage ==
  /\ InitBase
  /\ pc = "sweep"
  /\ cooldown = COOLDOWN_DEFAULT
  /\ equity_start = 10000
  /\ callIn = NoCall

StartBook ==
  /\ pc = "sweep"
  /\ cycle = 0
  /\ positions = [t \in Tickets |-> NoPos]
  /\ \E b \in ManageBooks : positions' = b
  /\ cycle' = 1
  /\ mods' = <<>>
  /\ seen' = NoTicks
  /\ closes' = <<>>
  /\ UNCHANGED <<nextTicket, now, execVars, pc, idx, last_plan_sig, cooldown, scanVars, stop, slept, equity_start,
                 tradeVars, callVars, lastPlace, lastExec, cyc, hist>>

Sweep ==
  /\ pc = "sweep"
  /\ cycle = 1
  /\ \E xs \in SweepInputs(positions, breakeven_set, ManagePrices, SltpOutcomes) :
       /\ SweepExact(positions, xs)
       /\ LET m == manage_open_positions(positions, breakeven_set, xs)
          IN /\ positions' = m.book
             /\ breakeven_set' = m.be
             /\ mods' = m.mods
             /\ seen' = NoTicks
             /\ closes' = <<>>
  /\ UNCHANGED partial_closed
  /\ UNCHANGED <<nextTicket, now, execVars, loopVars, callVars, lastPlace, lastExec, cyc, hist>>

SweepCloses(t) ==
  /\ pc = "sweep"
  /\ IsOpen(positions, t)
  /\ positions' = [positions EXCEPT ![t] = NoPos]
  /\ mods' = <<>>
  /\ seen' = NoTicks
  /\ closes' = <<>>
  /\ UNCHANGED <<nextTicket, now, execVars, loopVars, tradeVars, callVars, lastPlace,
                 lastExec, cyc, hist>>

NextManage ==
  \/ StartBook
  \/ Sweep
  \/ \E t \in Tickets : SweepCloses(t)

SpecManage == InitManage /\ [][NextManage]_vars

---------------------------------------------------------------------------
\* Scenario D: sweeps over one long opened at 1.1000 with its stop at 1.0950

ScenarioLong ==
  [symbol |-> "EURUSD", type |-> "buy", price_open |-> 1100000, sl |-> 1095000,
   sl0 |-> 1095000, volume |-> 10]

\* ticks of the scenario: 1.1015, 1.1030, 1.1050 and 1.1100
ScenarioPrices == {1101500, 1103000, 1105000, 1110000}

InitScenarioD ==
  /\ InitBase
  /\ pc = "sweep"
  /\ cooldown = COOLDOWN_DEFAULT
  /\ equity_start = 10000
  /\ callIn = NoCall

ScenarioOpen ==
  /\ pc = "sweep"
  /\ cycle = 0
  /\ positions' = [positions EXCEPT ![1] = ScenarioLong]
  /\ nextTicket' = 2
  /\ cycle' = 1
  /\ mods' = <<>>
  /\ seen' = NoTicks
  /\ closes' = <<>>
  /\ UNCHANGED <<now, execVars, pc, idx, last_plan_sig, cooldown, scanVars, stop, slept, equity_start,
                 tradeVars, callVars, lastPlace, lastExec, cyc, hist>>

ScenarioSweep ==
  /\ pc = "sweep"
  /\ cycle = 1
  /\ \E xs \in SweepInputs(positions, breakeven_set, ScenarioPrices, SltpOutcomes) :
       /\ SweepExact(positions, xs)
       /\ LET m == manage_open_positions(positions, breakeven_set, xs)
          IN /\ positions' = m.book
             /\ breakeven_set' = m.be
             /\ mods' = m.mods
             /\ seen' = [t \in Tickets |-> xs[t].price]
             /\ closes' = <<>>
  /\ UNCHANGED partial_closed
  /\ UNCHANGED <<nextTicket, now, execVars, loopVars, callVars, lastPlace, lastExec, cyc, hist>>

NextScenarioD == ScenarioOpen \/ ScenarioSweep

SpecScenarioD == InitScenarioD /\ [][NextScenarioD]_vars

---------------------------------------------------------------------------
\* manage_open_positions with PARTIAL_TP_ENABLED=true in the environment:
\* sweeps with all three blocks over a book of positions found open

PartialPositions ==
  { [symbol |-> "EURUSD", type |-> "buy", price_open |-> 1100000, sl |-> 1095000,
     sl0 |-> 1095000, volume |-> v] : v \in {1, 3, 10} }
  \cup
  { [symbol |-> "EURUSD", type |-> "sell", price_open |-> 1100000, sl |-> 1105000,
     sl0 |-> 1105000, volume |-> 10] }

\* one position under ticket 1, alone or with a long of 0.10 lot under ticket 2
PartialBooks ==
  { [t \in Tickets |-> IF t = 1 THEN p ELSE IF t = 2 THEN q ELSE NoPos] :
      p \in PartialPositions,
      q \in {NoPos, [symbol |-> "EURUSD", type |-> "buy", price_open |-> 1100000,
                     sl |-> 1095000, sl0 |-> 1095000, volume |-> 10]} }

\* the tick of a sweep (all positions are on one instrument): rr 0.5 and
\* rr 1.0 for a long, rr 1.0 for a short
PartialPrices == {1102500, 1105000, 1095000}

\* volume_min and volume_step symbol_info reports, in 0.01 lot
PartialSymbolInfos == { [vmin |-> 1, vstep |-> 1], [vmin |-> 2, vstep |-> 2] }

\* order_send for the closing order: accepting retcode, another answer, raises
PartialOutcomes == {"accepted", "rejected", "throws"}

\* what the venue may answer while position p (ticket t) is handled; answers
\* that are not asked for are fixed
PartialTicketInputs(p, t, be, pset, si, price) ==
  { [price |-> x.price, beOut |-> x.beOut, trOut |-> x.trOut, vmin |-> si.vmin,
     vstep |-> si.vstep, siNone |-> none, lowStep |-> low, ptOut |-> out] :
      x \in TicketInputs(p, t, be, {0, price}, SltpOutcomes),
      none \in BOOLEAN, low \in BOOLEAN, out \in PartialOutcomes }

PartialInputOk(p, t, pset, x) ==
  LET due == x.price # 0 /\ PartialDue(p, t, x.price, pset, TRUE)
  IN /\ x.lowStep => (due /\ LowStepPossible(p.volume, VolumeInfo(x)))
     /\ x.siNone => due
     \* the venue accepts no volume below its minimum or off its step grid
     /\ LET pv == PartialVolume(p.volume, VolumeInfo(x))
        IN (pv < x.vmin \/ pv % x.vstep # 0) => x.ptOut # "accepted"
     /\ (~due \/ ~PartialSends(p, t, x, pset, TRUE)) => x.ptOut = "accepted"

IdlePartialInput ==
  [price |-> 0, beOut |-> "applied", trOut |-> "applied", vmin |-> 1, vstep |-> 1,
   siNone |-> FALSE, lowStep |-> FALSE, ptOut |-> "accepted"]

\* price 0 for a position: symbol_info_tick returned nothing for it
RECURSIVE PartialSweepInputsFrom(_, _, _, _, _, _)
PartialSweepInputsFrom(t, book, be, pset, si, price) ==
  IF t > MaxTickets THEN {<<>>}
  ELSE { <<x>> \o rest :
           x \in (IF IsOpen(book, t)
                  THEN { y \in PartialTicketInputs(book[t], t, be, pset, si, price) :
                           PartialInputOk(book[t], t, pset, y) }
                  ELSE {IdlePartialInput}),
           rest \in PartialSweepInputsFrom(t + 1, book, be, pset, si, price) }

InitPartial ==
  /\ InitBase
  /\ pc = "sweep"
  /\ cooldown = COOLDOWN_DEFAULT
  /\ equity_start = 10000
  /\ callIn = NoCall

\* the state a sweep may find: the book, the tickets whose partial close was
\* accepted in an earlier sweep (the position is what remained), and ticket 1
\* with its break-even request sent earlier and rejected by the venue
PartialBook ==
  /\ pc = "sweep"
  /\ cycle = 0
  /\ \E b \in PartialBooks :
       /\ positions' = b
       /\ nextTicket' = OpenCount(b, "EURUSD") + 1
       /\ partial_closed' \in SUBSET {t \in Tickets : IsOpen(b, t)}
       /\ breakeven_set' \in {{}, {1}}
  /\ cycle' = 1
  /\ mods' = <<>>
  /\ seen' = NoTicks
  /\ closes' = <<>>
  /\ UNCHANGED <<now, execVars, pc, idx, last_plan_sig, cooldown, scanVars, stop, slept, equity_start,
                 callVars, lastPlace, lastExec, cyc, hist>>

PartialSweep ==
  /\ pc = "sweep"
  /\ cycle = 1
  /\ cycle' = 2
  /\ \E si \in PartialSymbolInfos, price \in PartialPrices :
       \E xs \in PartialSweepInputsFrom(1, positions, breakeven_set, partial_closed, si, price) :
         /\ SweepExact(positions, xs)
         /\ LET m == manage_open_positions_all(positions, breakeven_set, partial_closed,
                                               xs, TRUE)
            IN /\ positions' = m.book
               /\ breakeven_set' = m.be
               /\ partial_closed' = m.pset
               /\ mods' = m.mods
               /\ closes' = m.closes
               /\ seen' = [t \in Tickets |-> xs[t].price]
  /\ UNCHANGED <<nextTicket, now, execVars, pc, idx, last_plan_sig, cooldown, scanVars, stop, slept, equity_start,
                 callVars, lastPlace, lastExec, cyc, hist>>

NextPartial == PartialBook \/ PartialSweep

SpecPartial == InitPartial /\ [][NextPartial]_vars

---------------------------------------------------------------------------
\* execute_plan in isolation: one call for the first instrument, from any
\* executor state, book and journal the loop can have brought about

InitExec ==
  /\ InitBase
  /\ pc = "exec"
  /\ cooldown \in CooldownChoices
  /\ equity_start = 10000
  /\ callIn = NoCall

\* the state the loop has reached when it calls execute_plan
ExecState ==
  /\ pc = "exec"
  /\ cycle = 0
  /\ \E book \in ExecBooks, j \in ExecJournals, st \in BOOLEAN, ls \in BOOLEAN,
        lo \in {0, StartTime - COOLDOWN_DEFAULT, StartTime - (COOLDOWN_DEFAULT \div 3)},
        js \in {NoSig, _plan_signature(CHOOSE q \in LoopPlans(SYMBOLS[1]) : TRUE)} :
       /\ positions' = book
       /\ nextTicket' = OpenCount(book, SYMBOLS[1]) + 1
       /\ journal' = j
       /\ started' = [started EXCEPT ![SYMBOLS[1]] = st]
       /\ bars_seen' = [bars_seen EXCEPT ![SYMBOLS[1]] =
                          IF st THEN STARTUP_PROTECTION_CYCLES + 1 ELSE 1]
       /\ last_signal' = [last_signal EXCEPT ![SYMBOLS[1]] = ls]
       /\ last_open_time' = [last_open_time EXCEPT ![SYMBOLS[1]] = lo]
       /\ journal_sig' = [journal_sig EXCEPT ![SYMBOLS[1]] = js]
  /\ cycle' = 1
  /\ NoCallObserved
  /\ UNCHANGED <<now, pc, idx, last_plan_sig, cooldown, scanVars, stop, slept, equity_start, tradeVars,
                 callVars, mods, seen, closes, cyc, hist>>

ExecCall ==
  /\ pc = "exec"
  /\ cycle = 1
  /\ \E plan \in LoopPlans(SYMBOLS[1]), qf \in BOOLEAN, v \in LoopAnswers(nextTicket) :
       ExecutePlan(SYMBOLS[1], started[SYMBOLS[1]], plan, qf, v)
  /\ pc' = "returned"
  /\ UNCHANGED <<now, bars_seen, started, idx, cycle, last_plan_sig, cooldown, scanVars, stop, slept, equity_start,
                 tradeVars, callVars, mods, seen, closes, cyc, hist>>

NextExec == ExecState \/ ExecCall

SpecExec == InitExec /\ [][NextExec]_vars

---------------------------------------------------------------------------
\* one risk_gates_ok call over every reading

InitRisk ==
  /\ InitBase
  /\ pc = "risk"
  /\ cooldown = COOLDOWN_DEFAULT
  /\ callIn \in RiskInputs
  /\ equity_start = callIn.es

RiskReadings(in) ==
  [pnlFails |-> FALSE, pnl |-> daily_pnl_from_logs(in.h, in.closed),
   consFails |-> in.consFails,
   cons |-> IF in.consFails THEN 0 ELSE consecutive_losses_today(in.closed)]

RiskCall ==
  /\ pc = "risk"
  /\ lastGate' = [ok |-> risk_gates_ok(callIn.es, callIn.balance, callIn.equity,
                                       RiskReadings(callIn)),
                  evaluated |-> TRUE]
  /\ pc' = "returned"
  /\ UNCHANGED <<equity_start, cooldown, scanVars, stop, slept, positions, nextTicket, now, idx, cycle,
                 last_plan_sig, breakeven_set, partial_closed, callIn, callOut,
                 lastPlace, lastExec, mods, seen, closes, cyc, hist>>
  /\ UNCHANGED execVars

NextRisk == RiskCall

SpecRisk == InitRisk /\ [][NextRisk]_vars

---------------------------------------------------------------------------
\* Position sizing (risk.compute_lots and the sizing step of
\* swing_strategy.build_entry_plan), one call from drawn inputs.
\* The risk-based quotient of compute_lots is a float; it is an input here, in
\* thousandths of a lot, so that values below one volume step exist.

LOTS_FIXED == 1                      \* 0.01 lot

\* int(round(-log10(lot_step))) floored at 0, for a step in 0.01 lot:
\* 2 below 10^0.5 hundredths, 1 below 10^1.5, 0 from there on
StepDecimals(lot_step) ==
  IF lot_step <= 3 THEN 2 ELSE IF lot_step <= 31 THEN 1 ELSE 0

\* round to the nearest multiple of m, a tie going to the even multiple
RoundHalfEven(v, m) ==
  LET q == v \div m
      r == v % m
  IN IF 2 * r < m THEN q * m
     ELSE IF 2 * r > m THEN (q + 1) * m
     ELSE IF q % 2 = 0 THEN q * m ELSE (q + 1) * m

\* round(lots, step_decimals) of a volume in 0.01 lot
RoundDecimals(v, d) ==
  IF d >= 2 THEN v ELSE IF d = 1 THEN RoundHalfEven(v, 10) ELSE RoundHalfEven(v, 100)

LotStep(info) == IF info.vstep = 0 THEN 1 ELSE info.vstep
MinLot(info) == IF info.vmin = 0 THEN 1 ELSE info.vmin
MaxLot(info) == Min2(IF info.vmax = 0 THEN 10000 ELSE info.vmax, FAT_FINGER_MAX_LOTS)

\* the volume before rounding, in thousandths of a lot
RawLots(in) == IF in.mode = "FIXED" THEN 10 * LOTS_FIXED ELSE in.raw

\* math.floor(max(0.0, lots) / lot_step)
RawSteps(in) == Max2(0, RawLots(in)) \div (10 * LotStep(in.info))

compute_lots(in) ==
  IF in.info.none THEN RaisedV
  ELSE LET floored == RawSteps(in) * LotStep(in.info)
           clamped == Max2(MinLot(in.info), Min2(MaxLot(in.info), floored))
       IN RoundDecimals(clamped, StepDecimals(LotStep(in.info)))

\* build_entry_plan: the volume of the plan it returns, NoneV when it returns None
build_entry_plan_lots(in) ==
  LET lots == compute_lots(in)
  IN IF lots = RaisedV THEN NoneV
     ELSE IF lots <= 0 THEN NoneV
     ELSE lots

\* symbol_info answers: None, unset volume fields, and venues whose minimum and
\* maximum are multiples of their step (0.01, 0.1, 0.25, 0.5 and 1 lot steps)
SizeInfos ==
  { [none |-> TRUE, vmin |-> 0, vstep |-> 0, vmax |-> 0],
    [none |-> FALSE, vmin |-> 0, vstep |-> 0, vmax |-> 0],
    [none |-> FALSE, vmin |-> 1, vstep |-> 1, vmax |-> 10000],
    [none |-> FALSE, vmin |-> 10, vstep |-> 10, vmax |-> 5000],
    [none |-> FALSE, vmin |-> 25, vstep |-> 25, vmax |-> 1000],
    [none |-> FALSE, vmin |-> 50, vstep |-> 50, vmax |-> 1000],
    [none |-> FALSE, vmin |-> 100, vstep |-> 100, vmax |-> 300],
    [none |-> FALSE, vmin |-> 1000, vstep |-> 100, vmax |-> 10000] }

SizeRaws == {0 - 20, 0, 5, 10, 14, 99, 250, 499, 700, 760, 1250, 1500, 2500, 2999,
             5000, 7500, 60000}

SizeInputs == [mode : {"PERCENT", "FIXED"}, raw : SizeRaws, info : SizeInfos]

InitSize ==
  /\ InitBase
  /\ pc = "size"
  /\ cooldown = COOLDOWN_DEFAULT
  /\ equity_start = 10000
  /\ callIn \in { in \in SizeInputs : in.mode = "FIXED" => in.raw = 0 }

SizeCall ==
  /\ pc = "size"
  /\ callOut' = [lots |-> compute_lots(callIn), plan |-> build_entry_plan_lots(callIn)]
  /\ pc' = "returned"
  /\ UNCHANGED <<equity_start, cooldown, scanVars, stop, slept, positions, nextTicket, now, idx, cycle,
                 last_plan_sig, breakeven_set, partial_closed, callIn, lastGate,
                 lastPlace, lastExec, mods, seen, closes, cyc, hist>>
  /\ UNCHANGED execVars

NextSize == SizeCall

SpecSize == InitSize /\ [][NextSize]_vars

---------------------------------------------------------------------------
\* The trading loop with its stop signal (main.py: _stop_event): the waits of the
\* loop second by second, and a signal that can arrive at any point.
\* Whether the clock is inside the trading session is read from the wall clock;
\* here either answer is possible in every iteration.

MaxStopCycles == 2     \* iterations of the loop with the stop signal
MaxOffSession == 3     \* seconds of the longest out-of-session wait

InitStop ==
  /\ InitBase
  /\ pc = "gate"
  /\ cooldown = COOLDOWN_DEFAULT
  /\ equity_start = 10000
  /\ callIn = NoCall

\* the signal handler or the shutdown path sets _stop_event
StopSignal ==
  /\ ~stop
  /\ pc # "exited"
  /\ stop' = TRUE
  /\ NoCallObserved /\ NoSweepObserved
  /\ UNCHANGED <<venueVars, execVars, pc, idx, cycle, last_plan_sig, cooldown, scanVars,
                 equity_start, slept, tradeVars, callVars, cyc, hist>>

\* `while not _stop_event.is_set()` is false
LoopExit ==
  /\ pc = "gate"
  /\ stop
  /\ pc' = "exited"
  /\ NoCallObserved /\ NoSweepObserved
  /\ UNCHANGED <<venueVars, execVars, idx, cycle, last_plan_sig, cooldown, scanVars,
                 equity_start, stop, slept, tradeVars, callVars, cyc, hist>>

\* not in_ny_session: the loop enters the out-of-session wait
OutOfSession ==
  /\ pc = "gate"
  /\ ~stop
  /\ cycle < MaxStopCycles
  /\ cycle' = cycle + 1
  /\ cyc' = NoCyc
  /\ hist' = ShiftHist
  /\ pc' = "offsession"
  /\ slept' = 0
  /\ NoCallObserved /\ NoSweepObserved
  /\ UNCHANGED <<venueVars, execVars, idx, last_plan_sig, cooldown, scanVars, equity_start,
                 stop, tradeVars, callVars>>

\* one round of `for _ in range(sleep_seconds): if stop: break; time.sleep(1)`
OffSessionTick ==
  /\ pc = "offsession"
  /\ ~stop
  /\ slept < MaxOffSession
  /\ now' = now + 1
  /\ slept' = slept + 1
  /\ NoCallObserved /\ NoSweepObserved
  /\ UNCHANGED <<positions, nextTicket, execVars, pc, idx, cycle, last_plan_sig,
                 cooldown, scanVars, equity_start, stop, tradeVars, callVars, cyc, hist>>

\* the range is used up (it has at least one round) or the signal was seen: `continue`
OffSessionEnd ==
  /\ pc = "offsession"
  /\ stop \/ slept >= 1
  /\ pc' = "gate"
  /\ slept' = 0
  /\ NoCallObserved /\ NoSweepObserved
  /\ UNCHANGED <<venueVars, execVars, idx, cycle, last_plan_sig, cooldown, scanVars,
                 equity_start, stop, tradeVars, callVars, cyc, hist>>

\* risk_gates_ok is false: message, then the pause
StopGateDenied ==
  /\ pc = "gate"
  /\ ~stop
  /\ cycle < MaxStopCycles
  /\ \E g \in GateInputs :
       ~risk_gates_ok(equity_start, g.balance, g.equity, g)
  /\ cycle' = cycle + 1
  /\ cyc' = [NoCyc EXCEPT !.denied = TRUE]
  /\ hist' = ShiftHist
  /\ pc' = "paused"
  /\ NoCallObserved /\ NoSweepObserved
  /\ UNCHANGED <<venueVars, execVars, idx, last_plan_sig, cooldown, scanVars, equity_start,
                 stopVars, tradeVars, callVars>>

\* time.sleep(POLL_INTERVAL_SECONDS); continue
PauseSleep ==
  /\ pc = "paused"
  /\ now' = now + POLL_INTERVAL_SECONDS
  /\ pc' = "gate"
  /\ NoCallObserved /\ NoSweepObserved
  /\ UNCHANGED <<positions, nextTicket, execVars, idx, cycle, last_plan_sig, cooldown, scanVars,
                 equity_start, stopVars, tradeVars, callVars, cyc, hist>>

StopGatePassed ==
  /\ ~stop
  /\ cycle < MaxStopCycles
  /\ GatePassed

\* `if _stop_event.is_set(): break` is false: the instrument is processed
StopSymbol ==
  /\ ~stop
  /\ \/ SymbolBuildFails
     \/ SymbolNoPlan
     \/ SymbolDataUnavailable
     \/ SymbolDuplicate
     \/ SymbolExecute

\* `if _stop_event.is_set(): break`
StopBreak ==
  /\ pc = "symbols"
  /\ stop
  /\ pc' = "manage"
  /\ NoCallObserved /\ NoSweepObserved
  /\ UNCHANGED <<venueVars, execVars, idx, cycle, last_plan_sig, cooldown, scanVars,
                 equity_start, stopVars, tradeVars, callVars, cyc, hist>>

\* one round of `while slept < POLL_INTERVAL_SECONDS and not stop: time.sleep(1)`
PollTick ==
  /\ pc = "sleep"
  /\ ~stop
  /\ slept < POLL_INTERVAL_SECONDS
  /\ now' = now + 1
  /\ slept' = slept + 1
  /\ NoCallObserved /\ NoSweepObserved
  /\ UNCHANGED <<positions, nextTicket, execVars, pc, idx, cycle, last_plan_sig,
                 cooldown, scanVars, equity_start, stop, tradeVars, callVars, cyc, hist>>

PollEnd ==
  /\ pc = "sleep"
  /\ stop \/ slept >= POLL_INTERVAL_SECONDS
  /\ pc' = "gate"
  /\ slept' = 0
  /\ NoCallObserved /\ NoSweepObserved
  /\ UNCHANGED <<venueVars, execVars, idx, cycle, last_plan_sig, cooldown, scanVars,
                 equity_start, stop, tradeVars, callVars, cyc, hist>>

NextStop ==
  \/ StopSignal
  \/ LoopExit
  \/ OutOfSession
  \/ OffSessionTick
  \/ OffSessionEnd
  \/ StopGateDenied
  \/ PauseSleep
  \/ StopGatePassed
  \/ StopSymbol
  \/ StopBreak
  \/ Manage
  \/ ManageFails
  \/ PollTick
  \/ PollEnd

SpecStop == InitStop /\ [][NextStop]_vars

---------------------------------------------------------------------------
\* Zone clustering (zones._cluster_levels), one call and a second call on its
\* output. Prices are integers in units of the precision the function rounds to
\* (1e-6 for a pip below 0.0005, else 1e-4), so a pip is 100 units for the
\* currency pairs; cluster means are kept as (sum, count) and compared exactly.

MaxLevelsIn == 4       \* levels in the input list

PipUnits == 100

\* sorted(levels), by insertion
RECURSIVE InsertSorted(_, _)
InsertSorted(s, x) ==
  IF s = <<>> THEN <<x>>
  ELSE IF x <= Head(s) THEN <<x>> \o s
  ELSE <<Head(s)>> \o InsertSorted(Tail(s), x)

RECURSIVE SortedSeq(_)
SortedSeq(s) == IF s = <<>> THEN <<>> ELSE InsertSorted(SortedSeq(Tail(s)), Head(s))

RECURSIVE SetSorted(_)
SetSorted(S) ==
  IF S = {} THEN <<>>
  ELSE LET m == CHOOSE x \in S : \A y \in S : x <= y
       IN <<m>> \o SetSorted(S \ {m})

\* tol = max(1e-8, pip * cluster_tol_multiplier), in hundredths of a unit
ClusterTol(pip, mult) == Max2(1, 100 * pip * mult)

\* abs(lv - np.mean(cur)) <= tol, for a cluster of n levels summing to sum
NearMean(lv, sum, n, tol) == 100 * Abs(lv * n - sum) <= tol * n

\* round(np.mean(cur), prec): the mean to the nearest unit, a tie to the even one
RoundMean(sum, n) ==
  LET q == sum \div n
      r == sum % n
  IN IF 2 * r < n THEN q
     ELSE IF 2 * r > n THEN q + 1
     ELSE IF q % 2 = 0 THEN q ELSE q + 1

\* the greedy pass over the sorted levels from index i on, the open cluster
\* holding n levels that sum to sum; result: the set of rounded cluster means
RECURSIVE ClusterFrom(_, _, _, _, _, _)
ClusterFrom(sorted, i, sum, n, tol, done) ==
  IF i > Len(sorted) THEN done \cup {RoundMean(sum, n)}
  ELSE IF NearMean(sorted[i], sum, n, tol)
       THEN ClusterFrom(sorted, i + 1, sum + sorted[i], n + 1, tol, done)
       ELSE ClusterFrom(sorted, i + 1, sorted[i], 1, tol, done \cup {RoundMean(sum, n)})

\* count of original levels within tol of r
Significance(levels, r, tol) ==
  Cardinality({ i \in 1..Len(levels) : 100 * Abs(levels[i] - r) <= tol })

\* the first k levels by (most occurrences, then lower price)
RECURSIVE TopLevels(_, _, _, _)
TopLevels(S, k, levels, tol) ==
  IF k = 0 \/ S = {} THEN {}
  ELSE LET best == CHOOSE x \in S : \A y \in S \ {x} :
                     \/ Significance(levels, x, tol) > Significance(levels, y, tol)
                     \/ /\ Significance(levels, x, tol) = Significance(levels, y, tol)
                        /\ x < y
       IN {best} \cup TopLevels(S \ {best}, k - 1, levels, tol)

_cluster_levels(levels, pip, cluster_tol_multiplier, max_levels) ==
  IF levels = <<>> THEN <<>>
  ELSE LET tol == ClusterTol(pip, cluster_tol_multiplier)
           levels_sorted == SortedSeq(levels)
           rounded == ClusterFrom(levels_sorted, 2, levels_sorted[1], 1, tol, {})
       IN IF Cardinality(rounded) <= max_levels THEN SetSorted(rounded)
          ELSE SetSorted(TopLevels(rounded, max_levels, levels, tol))

LevelChoices == {0, 1, 400, 501, 801, 1700}

RECURSIVE SeqsUpTo(_, _)
SeqsUpTo(S, n) ==
  IF n = 0 THEN {<<>>}
  ELSE LET shorter == SeqsUpTo(S, n - 1)
       IN shorter \cup { Append(s, x) : s \in { t \in shorter : Len(t) = n - 1 }, x \in S }

ClusterInputs ==
  [levels : SeqsUpTo(LevelChoices, MaxLevelsIn), mult : {5, 8}, max_levels : {2, 20}]

InitCluster ==
  /\ InitBase
  /\ pc = "cluster"
  /\ cooldown = COOLDOWN_DEFAULT
  /\ equity_start = 10000
  /\ callIn \in ClusterInputs

\* _cluster_levels(levels, ...) and _cluster_levels of what it returned
ClusterCall ==
  /\ pc = "cluster"
  /\ LET once == _cluster_levels(callIn.levels, PipUnits, callIn.mult, callIn.max_levels)
     IN callOut' = [once |-> once,
                    twice |-> _cluster_levels(once, PipUnits, callIn.mult,
                                              callIn.max_levels)]
  /\ pc' = "returned"
  /\ UNCHANGED <<equity_start, cooldown, scanVars, stop, slept, positions, nextTicket, now, idx,
                 cycle, last_plan_sig, breakeven_set, partial_closed, callIn, lastGate,
                 lastPlace, lastExec, mods, seen, closes, cyc, hist>>
  /\ UNCHANGED execVars

NextCluster == ClusterCall

SpecCluster == InitCluster /\ [][NextCluster]_vars

---------------------------------------------------------------------------
\* The Signal Builder (swing_strategy.build_entry_plan), one call. What the
\* bar data yields at each step is an input: the outcome of the steps before
\* the reversal (pre), the reversal direction, the three trend labels, the
\* confirmation, continuation and spread answers, the candles the stop is
\* derived from, and the inputs of the sizing. Prices are in 1e-6.

REQUIRE_CONTINUATION == TRUE

Labels == {"bull", "bear", "none"}

LabelCount(wt, dt, h4t, l) ==
  (IF wt = l THEN 1 ELSE 0) + (IF dt = l THEN 1 ELSE 0) + (IF h4t = l THEN 1 ELSE 0)

\* the mutation: a consensus only when all three labels are available
Consensus_NeedsAll(wt, dt, h4t) ==
  LET bulls == LabelCount(wt, dt, h4t, "bull")
      bears == LabelCount(wt, dt, h4t, "bear")
  IN IF bulls + bears < 3 THEN "none"
     ELSE IF bulls > bears THEN "bull" ELSE "bear"

\* trends = [t for t in (wt, dt, h4t) if t is not None] and the vote over it
Consensus(wt, dt, h4t) ==
  LET bulls == LabelCount(wt, dt, h4t, "bull")
      bears == LabelCount(wt, dt, h4t, "bear")
  IN IF bulls + bears >= 2
     THEN IF bulls > bears THEN "bull" ELSE IF bears > bulls THEN "bear" ELSE "none"
     ELSE IF bulls + bears = 1
          THEN IF bulls = 1 THEN "bull" ELSE "bear"
          ELSE "none"

OpposesConsensus(consensus, rej_dir) ==
  \/ consensus = "bull" /\ rej_dir = "bear"
  \/ consensus = "bear" /\ rej_dir = "bull"

\* buffer = max(atr * 0.15, entry * 0.0003); pip_buffer = 5 * psize
StopBuffer(c) == Max2((c.atr * 15) \div 100, (c.entry * 3) \div 10000)

PipBuffer == 5 * PipUnits

\* the mutation: the stop candidate is taken as it is
StopFromRejection_NoPipFloor(c, direction) ==
  IF direction = "bear"
  THEN Max2(c.high, c.prev_high) + StopBuffer(c)
  ELSE Min2(c.low, c.prev_low) - StopBuffer(c)

\* sl of _choose_sl_tp_from_rej
StopFromRejection(c, direction) ==
  IF direction = "bear"
  THEN Max2(Max2(c.high, c.prev_high) + StopBuffer(c), c.entry + PipBuffer)
  ELSE Min2(Min2(c.low, c.prev_low) - StopBuffer(c), c.entry - PipBuffer)

_choose_sl_tp_from_rej(c, direction) ==
  LET sl == StopFromRejection(c, direction)
      risk == Abs(c.entry - sl)
      reach == Max2(risk * 2, c.atr * 2)
  IN [entry |-> c.entry, sl |-> sl,
      tp |-> IF direction = "bear" THEN c.entry - reach ELSE c.entry + reach]

\* build_entry_plan returned None
NoBuiltPlan ==
  [none |-> TRUE, direction |-> "", entry_price |-> 0, sl |-> 0, tp |-> 0, lots |-> 0]

\* what build_entry_plan returns
build_entry_plan(in) ==
  IF in.pre # "ok" THEN NoBuiltPlan
  ELSE IF in.rej_dir = "none" THEN NoBuiltPlan
  ELSE IF OpposesConsensus(Consensus(in.wt, in.dt, in.h4t), in.rej_dir) THEN NoBuiltPlan
  ELSE IF ~in.confirm THEN NoBuiltPlan
  ELSE IF REQUIRE_CONTINUATION /\ ~in.cont_ok THEN NoBuiltPlan
  ELSE IF in.spread = "wide" THEN NoBuiltPlan
  ELSE LET levels == _choose_sl_tp_from_rej(in.candles, in.rej_dir)
           lots == build_entry_plan_lots(in.size)
       IN IF lots = NoneV THEN NoBuiltPlan
          ELSE [none |-> FALSE,
                direction |-> IF in.rej_dir = "bear" THEN "short" ELSE "long",
                entry_price |-> levels.entry, sl |-> levels.sl, tp |-> levels.tp,
                lots |-> lots]

\* steps before the reversal test that end the call with None, or "ok"
BuildPre == {"fetch", "empty", "nozones", "nohit", "touches", "ok"}

\* last close 1.100000 with the rejection candle around it, above it, below it,
\* and a flat market
BuildCandles ==
  { [entry |-> 1100000, high |-> 1100800, low |-> 1099500, prev_high |-> 1100600,
     prev_low |-> 1099700, atr |-> 1000],
    [entry |-> 1100000, high |-> 1102000, low |-> 1101000, prev_high |-> 1101800,
     prev_low |-> 1100900, atr |-> 400],
    [entry |-> 1100000, high |-> 1099000, low |-> 1098000, prev_high |-> 1098900,
     prev_low |-> 1098100, atr |-> 3000],
    [entry |-> 1100000, high |-> 1100000, low |-> 1100000, prev_high |-> 1100000,
     prev_low |-> 1100000, atr |-> 0] }

BuildSizes ==
  { [mode |-> "PERCENT", raw |-> 250,
     info |-> [none |-> FALSE, vmin |-> 1, vstep |-> 1, vmax |-> 10000]],
    [mode |-> "PERCENT", raw |-> 250,
     info |-> [none |-> TRUE, vmin |-> 0, vstep |-> 0, vmax |-> 0]],
    [mode |-> "PERCENT", raw |-> 700,
     info |-> [none |-> FALSE, vmin |-> 50, vstep |-> 50, vmax |-> 1000]] }

IdleBuild ==
  [pre |-> "ok", rej_dir |-> "none", wt |-> "none", dt |-> "none", h4t |-> "none",
   confirm |-> FALSE, cont_ok |-> FALSE, spread |-> "ok",
   candles |-> CHOOSE c \in BuildCandles : c.atr = 0,
   size |-> CHOOSE z \in BuildSizes : z.info.none]

\* an input of a step the call does not reach has its idle value
BuildInputs ==
  { [IdleBuild EXCEPT !.pre = p] : p \in BuildPre } \cup
  { [IdleBuild EXCEPT !.rej_dir = r, !.wt = w, !.dt = d, !.h4t = h, !.confirm = cf,
                      !.cont_ok = co, !.spread = sp, !.candles = c, !.size = z] :
      r \in {"bull", "bear"}, w \in Labels, d \in Labels, h \in Labels,
      cf \in BOOLEAN, co \in BOOLEAN, sp \in {"ok", "wide", "throws"},
      c \in BuildCandles, z \in BuildSizes }

InitBuild ==
  /\ InitBase
  /\ pc = "build"
  /\ cooldown = COOLDOWN_DEFAULT
  /\ equity_start = 10000
  /\ callIn \in BuildInputs

BuildCall ==
  /\ pc = "build"
  /\ callOut' = [plan |-> build_entry_plan(callIn)]
  /\ pc' = "returned"
  /\ UNCHANGED <<equity_start, cooldown, scanVars, stop, slept, positions, nextTicket, now, idx,
                 cycle, last_plan_sig, breakeven_set, partial_closed, callIn, lastGate,
                 lastPlace, lastExec, mods, seen, closes, cyc, hist>>
  /\ UNCHANGED execVars

NextBuild == BuildCall

SpecBuild == InitBuild /\ [][NextBuild]_vars

---------------------------------------------------------------------------
\* main.py: trading_loop's account reads and the risk gate they feed, cycle
\* after cycle; what a cycle does after the gate is the subject of Spec

\* mt5.account_info(): it raises, it returns None, or it returns a snapshot
NoAccount == [kind |-> "unread", equity |-> 0, balance |-> 0]
AccountAnswers ==
  { [kind |-> "raises", equity |-> 0, balance |-> 0],
    [kind |-> "none", equity |-> 0, balance |-> 0] }
  \cup
  { [kind |-> "ok", equity |-> e, balance |-> 10000] : e \in {10000, 9150, 5000} }

\* today's journal readings inside the gate
AccountReadings ==
  { [pnlFails |-> FALSE, pnl |-> p, consFails |-> FALSE, cons |-> 0] : p \in {0 - 50, 0} }

\* float(acc.equity) if acc else 0.0, and 0.0 when account_info raised
account_equity(a) == IF a.kind = "ok" THEN a.equity ELSE 0

\* float(acc_info.balance) if acc_info else 0.0, and 0.0 when it raised
account_balance(a) == IF a.kind = "ok" THEN a.balance ELSE 0

InitAccount ==
  /\ InitBase
  /\ pc = "start"
  /\ cooldown = COOLDOWN_DEFAULT
  /\ equity_start = 0
  /\ callIn = [start |-> NoAccount, cycle |-> NoAccount]

\* the read before the loop: equity_start
StartRead ==
  /\ pc = "start"
  /\ \E a \in AccountAnswers :
       /\ equity_start' = account_equity(a)
       /\ callIn' = [callIn EXCEPT !.start = a]
  /\ pc' = "gate"
  /\ UNCHANGED <<venueVars, execVars, idx, cycle, last_plan_sig, cooldown, scanVars, stopVars,
                 tradeVars, lastGate, callOut, lastPlace, lastExec, mods, seen, closes,
                 cyc, hist>>

\* the read at the top of an iteration and the risk_gates_ok call on its values
CycleGate ==
  /\ pc = "gate"
  /\ cycle < MaxCycles
  /\ \E a \in AccountAnswers, d \in AccountReadings :
       LET balance == account_balance(a)
           equity == account_equity(a)
       IN /\ lastGate' = [ok |-> risk_gates_ok(equity_start, balance, equity, d),
                          evaluated |-> TRUE]
          /\ callOut' = [es |-> equity_start, balance |-> balance, equity |-> equity,
                         pnl |-> d.pnl]
          /\ callIn' = [callIn EXCEPT !.cycle = a]
  /\ cycle' = cycle + 1
  /\ UNCHANGED <<venueVars, execVars, pc, idx, last_plan_sig, cooldown, scanVars, equity_start,
                 stopVars, tradeVars, lastPlace, lastExec, mods, seen, closes, cyc, hist>>

NextAccount == StartRead \/ CycleGate

SpecAccount == InitAccount /\ [][NextAccount]_vars

---------------------------------------------------------------------------
\* position_watcher.py: scan_history_and_update, called once per iteration of
\* trading_loop that reaches it, while the venue closes positions in between

\* what the venue does to one scan: mt5.initialize() is false twice,
\* history_deals_get raises, it returns None, or it returns the deals asked for
ScanOutcomes == {"uninitialised", "raises", "none", "ok"}

\* history_deals_get(frm, to) or []
DealsRead(out, ds, frm, to) ==
  IF out = "ok" THEN {d \in ds : frm <= d.time /\ d.time <= to} ELSE {}

\* scan_history_and_update(last_check_utc) at time `to`: the new timestamp and
\* the tickets it appended a 'closed' row for
scan_history_and_update(last_check_utc, to, out, ds) ==
  IF out \in {"uninitialised", "raises"}
  THEN [new_ts |-> to, closed |-> {}]
  ELSE [new_ts |-> to,
        closed |-> {d.ticket : d \in DealsRead(out, ds, last_check_utc, to)}]

InitScan ==
  /\ InitBase
  /\ pc = "scan"
  /\ cooldown = COOLDOWN_DEFAULT
  /\ equity_start = 10000
  /\ callIn = NoCall

\* new_ts = scan_history_and_update(last_history_check); last_history_check = new_ts
Scan ==
  /\ pc = "scan"
  /\ cycle < MaxCycles
  /\ \E out \in ScanOutcomes :
       LET r == scan_history_and_update(last_history_check, now, out, deals)
       IN /\ last_history_check' = r.new_ts
          /\ closed_rows' = closed_rows \cup r.closed
  /\ cycle' = cycle + 1
  /\ pc' = "sleep"
  /\ UNCHANGED <<venueVars, execVars, idx, last_plan_sig, cooldown, equity_start, stopVars,
                 tradeVars, callVars, lastPlace, lastExec, mods, seen, closes, cyc, hist,
                 deals>>

\* an iteration that does not reach the scan: the risk gate denied and the
\* loop went on to its next iteration
ScanSkipped ==
  /\ pc = "scan"
  /\ cycle < MaxCycles
  /\ cycle' = cycle + 1
  /\ pc' = "sleep"
  /\ UNCHANGED <<venueVars, execVars, idx, last_plan_sig, cooldown, scanVars, equity_start,
                 stopVars, tradeVars, callVars, lastPlace, lastExec, mods, seen, closes,
                 cyc, hist>>

\* the venue closes position t while the loop sleeps: a closing deal enters
\* the history, dated between two scans
ScanVenueCloses(t) ==
  /\ pc = "sleep"
  /\ t \notin {d.ticket : d \in deals}
  /\ deals' = deals \cup {[ticket |-> t, time |-> now + 1]}
  /\ UNCHANGED <<venueVars, execVars, pc, idx, cycle, last_plan_sig, cooldown, equity_start,
                 stopVars, tradeVars, callVars, lastPlace, lastExec, mods, seen, closes,
                 cyc, hist, last_history_check, closed_rows>>

ScanSleep ==
  /\ pc = "sleep"
  /\ now' = now + POLL_INTERVAL_SECONDS
  /\ pc' = "scan"
  /\ UNCHANGED <<positions, nextTicket, execVars, idx, cycle, last_plan_sig, cooldown,
                 scanVars, equity_start, stopVars, tradeVars, callVars, lastPlace, lastExec,
                 mods, seen, closes, cyc, hist>>

NextScan ==
  \/ Scan
  \/ ScanSkipped
  \/ \E t \in Tickets : ScanVenueCloses(t)
  \/ ScanSleep

SpecScan == InitScan /\ [][NextScan]_vars

---------------------------------------------------------------------------
\* Properties

\* ---- C1 ----
\* Breakeven is one-shot per ticket: once the breakeven flag of a ticket is set,
\* no later sweep sends the breakeven stop modification for that ticket again,
\* however long rr stays at or above BREAKEVEN_RR.
C1_BreakevenOneShot ==
  [][\A t \in breakeven_set :
       \A i \in 1..Len(mods') :
         ~(mods'[i].ticket = t /\ mods'[i].kind = "breakeven")]_vars

\* a sweep at rr >= BREAKEVEN_RR over a long whose flag is set and whose stop is
\* still below entry (the venue rejected the moves): trailing is sent, breakeven is not
C1_Witness ==
  \E t \in breakeven_set :
    /\ IsOpen(positions, t)
    /\ positions[t].type = "buy"
    /\ positions[t].sl < positions[t].price_open
    /\ \E i \in 1..Len(mods) :
         /\ mods[i].ticket = t
         /\ mods[i].kind = "trailing"
         /\ mods[i].cur = positions[t].sl
         /\ 2 * (mods[i].new - positions[t].price_open)
              >= positions[t].price_open - positions[t].sl
    /\ \A i \in 1..Len(mods) : ~(mods[i].ticket = t /\ mods[i].kind = "breakeven")

\* ---- C2 ----
\* The stop never loosens: every stop modification a sweep sends (breakeven or
\* trailing) asks for a stop at least as favorable as the stop the position has
\* at the venue when the request is sent.
C2_StopNeverLoosens ==
  \A i \in 1..Len(mods) :
    IF mods[i].type = "buy" THEN mods[i].new >= mods[i].cur
    ELSE mods[i].new <= mods[i].cur

\* a sweep that sent breakeven and then trailing for the same ticket, both applied
C2_Witness ==
  \E i, j \in 1..Len(mods) :
    /\ i < j
    /\ mods[i].ticket = mods[j].ticket
    /\ mods[i].kind = "breakeven" /\ mods[i].out = "applied"
    /\ mods[j].kind = "trailing" /\ mods[j].out = "applied"
    /\ mods[j].new # mods[j].cur

\* ---- C3 ----
\* Debounce: when an instrument's plans in two consecutive cycles have the same
\* signature, place_trade is invoked in at most one of the two cycles, whether
\* the first attempt filled or was rejected.
C3_Debounce ==
  \A s \in SymbolSet :
    hist[s].placedSig # NoSig => hist[s].placedSig # hist[s].prevPlacedSig

\* the second of two consecutive cycles with the same signature, the first of
\* which reached place_trade without opening: execute_plan declines
C3_Witness ==
  /\ lastExec.symbol # ""
  /\ ~lastExec.attempt
  /\ lastExec.reason = "no_rising_edge"
  /\ lastExec.sig = hist[lastExec.symbol].prevPlacedSig
  /\ last_plan_sig[lastExec.symbol] # lastExec.sig

\* ---- C4 ----
\* In a cycle where risk_gates_ok returned false no plan is built or executed,
\* and manage_open_positions has run by the time that cycle ends.
C4_DeniedCycleStillManages ==
  cyc.denied => (~cyc.built /\ (pc = "gate" => cyc.managed >= 1))

\* ---- C5 ----
\* Filling-mode fallback is ordered and bounded: a call's submissions start with
\* the default mode, the alternates follow in the order IOC, FOK, RETURN, each at
\* most once, nothing is submitted after a success, there are at most 1 + 3
\* submissions, and the call returns.
ModeRank(m) ==
  CASE m = "DEFAULT" -> 0 [] m = "IOC" -> 1 [] m = "FOK" -> 2 [] m = "RETURN" -> 3

C5_FallbackOrderedBounded ==
  pc = "returned" =>
    LET subs == lastPlace.subs
        n == Len(subs)
    IN /\ n <= 1 + 3
       /\ n >= 1 => subs[1].mode = "DEFAULT"
       /\ \A i \in 1..n : subs[i].mode \in {"DEFAULT", "IOC", "FOK", "RETURN"}
       /\ \A i, j \in 1..n : i < j => ModeRank(subs[i].mode) < ModeRank(subs[j].mode)
       /\ \A i \in 1..n : (subs[i].res # NoResult /\ subs[i].res.rc \in {0, 10009}) => i = n

\* unsupported-filling rejections all the way: default, IOC, FOK and RETURN are
\* each submitted once and the call returns no identifier
C5_Witness ==
  /\ pc = "returned"
  /\ Len(lastPlace.subs) = 4
  /\ \A i \in 1..4 : lastPlace.subs[i].res = Rejected(RC_UNSUPPORTED_FILLING, FALSE)
  /\ lastPlace.ret = NoneV

\* ---- C6 ----
\* Retries happen only for filling-mode rejections: a further submission is made
\* only when the preceding one was rejected with a filling-mode cause; after any
\* other failed submission the call submits nothing more and returns no identifier.
FillingRejection(res) ==
  res # NoResult /\ res.rc \notin {0, 10009} /\ (res.rc = 10030 \/ res.filling)

C6_RetryOnlyOnFillingRejection ==
  pc = "returned" =>
    LET subs == lastPlace.subs
        n == Len(subs)
    IN /\ \A i \in 1..n : i < n => FillingRejection(subs[i].res)
       /\ (n >= 1 /\ ~(subs[n].res # NoResult /\ subs[n].res.rc \in {0, 10009}))
            => lastPlace.ret = NoneV

\* ---- C7 ----
\* Scenario C as stated: the default submission is rejected as unsupported
\* filling and the order succeeds on the second alternate mode (FOK); then the
\* call returns that submission's identifier and records exactly two submissions.
SubmissionId(res) == IF res.deal # 0 THEN res.deal ELSE res.order

Accepted(res) == res # NoResult /\ res.rc \in {0, 10009}

C7_ScenarioC_Original ==
  pc = "returned" =>
    LET subs == lastPlace.subs
        n == Len(subs)
    IN (/\ n >= 2
        /\ FillingRejection(subs[1].res)
        /\ subs[n].mode = "FOK"
        /\ Accepted(subs[n].res))
       => (lastPlace.ret = SubmissionId(subs[n].res) /\ n = 2)

\* C7, amended: after an unsupported-filling rejection of the default
\* submission, when the k-th submission of the call succeeds the call returns
\* that submission's identifier and records exactly k submissions: two when the
\* first alternate tried succeeds, three when FOK succeeds after IOC was
\* submitted and failed.
C7_ScenarioC ==
  pc = "returned" =>
    LET subs == lastPlace.subs
        n == Len(subs)
    IN (n >= 2 /\ FillingRejection(subs[1].res)) =>
         \A k \in 2..n :
           Accepted(subs[k].res) =>
             /\ n = k
             /\ lastPlace.ret = SubmissionId(subs[k].res)
             /\ (subs[k].mode = "FOK" /\ subs[2].mode = "IOC") => n = 3

\* default rejected as unsupported, IOC submitted and rejected, FOK accepted
C7_Witness ==
  /\ pc = "returned"
  /\ Len(lastPlace.subs) = 3
  /\ FillingRejection(lastPlace.subs[1].res)
  /\ lastPlace.subs[2].mode = "IOC" /\ ~Accepted(lastPlace.subs[2].res)
  /\ lastPlace.subs[3].mode = "FOK" /\ Accepted(lastPlace.subs[3].res)
  /\ lastPlace.ret = 1

\* ---- C8 ----
\* Every terminal outcome of one plan execution (opened, skipped, rejected) makes
\* exactly one call into the notification sink, execute_plan and place_trade
\* counted together.
C8_OneNotificationPerOutcome ==
  lastExec.symbol # "" => Len(lastExec.notes) = 1

\* ---- C9 ----
\* Warm-up: during an instrument's first STARTUP_PROTECTION_CYCLES ticks
\* execute_plan never reaches place_trade for it, whatever plans are produced,
\* and a started instrument never becomes un-started.
C9_WarmUp ==
  /\ [](lastExec.attempt => bars_seen[lastExec.symbol] > STARTUP_PROTECTION_CYCLES)
  /\ [][\A s \in SymbolSet : started[s] => started'[s]]_vars

\* a plan produced on the last warm-up tick is declined for startup protection
C9_Witness ==
  /\ lastExec.symbol # ""
  /\ bars_seen[lastExec.symbol] = STARTUP_PROTECTION_CYCLES
  /\ lastExec.reason = "startup_protection"
  /\ ~lastExec.attempt
  /\ lastPlace = NoPlace

\* ---- C10 ----
\* Cooldown: place_trade is invoked for an instrument only when at least
\* COOLDOWN_SECONDS have passed since the last trade opened on it at the venue.
C10_Cooldown ==
  lastExec.attempt =>
    (lastExec.prevOpen = NoneV \/ lastExec.at - lastExec.prevOpen >= cooldown)

\* ---- C11 ----
\* Position cap: execute_plan reaches place_trade for an instrument only when
\* fewer than MAX_POSITIONS_PER_SYMBOL positions are open on it, so the call
\* never leaves more than the cap open.
C11_PositionCap ==
  (lastExec.symbol # "" /\ lastExec.attempt) =>
    /\ lastExec.openBefore < MAX_POSITIONS_PER_SYMBOL
    /\ OpenCount(positions, lastExec.symbol) <= MAX_POSITIONS_PER_SYMBOL

\* ---- C12 ----
\* A failed open-positions query is not read as zero open positions: no order
\* is submitted by an execute_plan call whose query failed.
C12_FailedQueryIsUnknown ==
  (lastExec.symbol # "" /\ lastExec.queryFails) => ~lastExec.attempt

\* ---- C13 ----
\* Duplicate plans do not re-write the journal: an execute_plan call without a
\* fill whose plan has the signature last journaled for the instrument appends
\* no row; a call with a fill appends one 'opened' row whatever the signature.
C13_JournalRows ==
  lastExec.symbol # "" =>
    LET filled == AcceptedAt(lastPlace) # 0
    IN /\ filled =>
            /\ lastExec.row = "opened"
            /\ journal.dayOpened = lastExec.journalBefore.dayOpened + 1
            /\ journal.day = lastExec.journalBefore.day + 1
       /\ (~filled /\ lastExec.jprev = lastExec.sig) =>
            /\ lastExec.row = "none"
            /\ journal = lastExec.journalBefore

\* ---- C14 ----
\* Trade-count gate: place_trade is not reached when the journal holds
\* MAX_TRADES_PER_DAY or more trades opened today or MAX_TRADES_PER_WEEK or
\* more opened this week.
C14_TradeCountGate ==
  (lastExec.symbol # "" /\ lastExec.attempt) =>
    /\ lastExec.journalBefore.dayOpened < MAX_TRADES_PER_DAY
    /\ lastExec.journalBefore.weekOpened < MAX_TRADES_PER_WEEK

\* ---- C15 ----
\* Drawdown boundary: with the daily-loss and consecutive-loss gates not tripped
\* and a positive equity_start, risk_gates_ok denies exactly when the equity loss
\* relative to equity_start is at least MAX_DRAWDOWN_PCT: it denies at a loss
\* exactly equal to the threshold and at any larger one (10000 -> 9150 at 0.08),
\* and allows at a loss one unit below the threshold.
\* the venue history answers and today's exit deals sum to a loss of at least
\* balance x MAX_DAILY_LOSS_PCT
DailyLossTripped(in) ==
  /\ ~in.h.fails
  /\ in.h.pnl < 0
  /\ 100 * Abs(in.h.pnl) >= MAX_DAILY_LOSS_PCT_x100 * in.balance

\* the journal could be read and today's closed rows end with at least
\* CONSECUTIVE_LOSS_LIMIT losing ones
ConsecutiveTripped(in) ==
  /\ ~in.consFails
  /\ Len(in.closed) >= CONSECUTIVE_LOSS_LIMIT
  /\ \A i \in (Len(in.closed) - CONSECUTIVE_LOSS_LIMIT + 1)..Len(in.closed) :
       in.closed[i] < 0

C15_DrawdownBoundary ==
  (lastGate.evaluated /\ callIn.es > 0
     /\ ~DailyLossTripped(callIn) /\ ~ConsecutiveTripped(callIn)) =>
    /\ (100 * (callIn.es - callIn.equity) >= MAX_DRAWDOWN_PCT_x100 * callIn.es)
         => ~lastGate.ok
    /\ (100 * (callIn.es - callIn.equity + 1) = MAX_DRAWDOWN_PCT_x100 * callIn.es)
         => lastGate.ok

\* equity 9200 against a start of 10000 is a loss of exactly 8 %: denied with
\* no other gate tripped
C15_Witness ==
  /\ lastGate.evaluated /\ ~lastGate.ok
  /\ callIn.es = 10000 /\ callIn.equity = 9200
  /\ ~DailyLossTripped(callIn) /\ ~ConsecutiveTripped(callIn)

\* ---- C16 ----
\* The three risk gates are independent and any one denies: risk_gates_ok
\* returns false whenever the drawdown is at or over its limit, or today's
\* closed PnL in the venue history is negative with magnitude at least
\* balance x MAX_DAILY_LOSS_PCT, or today's closed rows end with at least
\* CONSECUTIVE_LOSS_LIMIT losing ones, whatever the other two checks find and
\* whether or not they could be made.
DrawdownTripped(in) ==
  IF in.es > 0 THEN 100 * (in.es - in.equity) >= MAX_DRAWDOWN_PCT_x100 * in.es
  ELSE in.equity < in.es

C16_AnyGateDenies ==
  lastGate.evaluated =>
    ((DrawdownTripped(callIn) \/ DailyLossTripped(callIn) \/ ConsecutiveTripped(callIn))
       => ~lastGate.ok)

\* only the consecutive-loss gate trips, while the venue history is unavailable
C16_Witness ==
  /\ lastGate.evaluated /\ ~lastGate.ok
  /\ callIn.h.fails
  /\ ~DrawdownTripped(callIn) /\ ~DailyLossTripped(callIn)
  /\ ConsecutiveTripped(callIn)

\* ---- C17 ----
\* Daily-loss fallback: when the venue deal-history query fails, the daily-loss
\* gate is evaluated on the sum of today's closed rows of the journal, and the
\* call denies when that sum is negative with magnitude at least
\* balance x MAX_DAILY_LOSS_PCT.
C17_DailyLossFallback ==
  (lastGate.evaluated /\ callIn.h.fails
     /\ SumSeq(callIn.closed) < 0
     /\ 100 * Abs(SumSeq(callIn.closed)) >= MAX_DAILY_LOSS_PCT_x100 * callIn.balance)
    => ~lastGate.ok

\* ---- C18 ----
\* place_trade never propagates an exception to its caller: when a step of the
\* call throws (the symbol lookup, the request build, an order submission) the
\* call is a failed attempt and returns no identifier (None); when its last
\* submission succeeded it returns that submission's identifier.
C18_NoPropagation ==
  pc = "returned" =>
    LET subs == lastPlace.subs
        n == Len(subs)
        attempted == ~(NOTIFY_ONLY \/ ~TRADE_ENABLED) /\ callIn.plan.lots <= FAT_FINGER_MAX_LOTS
        threw == \/ callIn.v.si = "throws"
                 \/ (callIn.v.si = "ok" /\ ~callIn.v.tickBase)
                 \/ \E i \in 1..n : subs[i].res = Raised
    IN /\ lastPlace.ret # RaisedV
       /\ (attempted /\ threw) => lastPlace.ret = NoneV
       /\ (n >= 1 /\ Accepted(subs[n].res)) => lastPlace.ret = SubmissionId(subs[n].res)

\* ---- C19 ----
\* The achieved R-multiple behind every stop modification a sweep sends is the
\* favorable price movement divided by the position's original entry-to-stop
\* distance: the distance the sweep divides by is the one the position was
\* opened with, also after breakeven or trailing moved the stop in earlier cycles.
C19_OriginalStopDistance ==
  \A i \in 1..Len(mods) :
    LET p == positions[mods[i].ticket]
    IN mods[i].risk = Abs(p.price_open - p.sl0)

\* ---- C20 ----
\* Scenario D as stated: for an open long with entry 1.1000 and stop 1.0950 and
\* BREAKEVEN_RR = 1.0, a sweep at price 1.1015 finds rr 0.6 and sends no stop
\* change; a sweep at 1.1050 (rr 1.0) sends the modification moving the stop to
\* 1.1000; once that request has returned it is not sent again in any following
\* cycle.
ScenarioUntouched == positions[1] = ScenarioLong /\ 1 \notin breakeven_set

\* the sweep just made sent the breakeven modification of ticket 1
BreakevenSent(ms) ==
  \E i \in 1..Len(ms) :
    ms[i].ticket = 1 /\ ms[i].kind = "breakeven" /\ ms[i].new = ScenarioLong.price_open

BreakevenReturned(ms) ==
  \E i \in 1..Len(ms) :
    ms[i].ticket = 1 /\ ms[i].kind = "breakeven" /\ ms[i].out # "throws"

ScenarioD_At11050 ==
  (ScenarioUntouched /\ seen'[1] = 1105000) =>
    /\ 1 * (seen'[1] - positions[1].price_open) = 1 * PositionRisk(positions[1])
    /\ BreakevenSent(mods')
    /\ BreakevenReturned(mods') => 1 \in breakeven_set'

ScenarioD_Once ==
  (1 \in breakeven_set) => (~BreakevenSent(mods') /\ 1 \in breakeven_set')

CloseRecords(cs, t) == { i \in 1..Len(cs) : cs[i].ticket = t }

\* position p at tick price has reached the partial take-profit threshold
PartialThresholdReached(p, price) ==
  LET risk == Abs(p.price_open - p.sl)
      move == IF p.type = "buy" THEN price - p.price_open ELSE p.price_open - price
  IN p.sl # 0 /\ risk > 0 /\ price # 0
       /\ PARTIAL_TP_RR_DEN * move >= PARTIAL_TP_RR_NUM * risk

C22_PartialVolumeValid ==
  \A i \in 1..Len(closes) :
    closes[i].out # "skipped" =>
      /\ closes[i].volume % closes[i].vstep = 0
      /\ closes[i].volume >= closes[i].vmin
      /\ closes[i].volume < closes[i].full

\* ---- C23 ----
\* Per-position isolation: in one sweep every open position for which a tick
\* was read gets each modification that is due for it (breakeven, partial
\* close attempt, trailing), whatever failed (order_send raising, rejection, no
\* tick) while another position, or an earlier block of the same one, was handled.
StopRecords(ms, t, kind) == { i \in 1..Len(ms) : ms[i].ticket = t /\ ms[i].kind = kind }

BreakevenDue(p, t, price, be) ==
  LET risk == Abs(p.price_open - p.sl)
      move == IF p.type = "buy" THEN price - p.price_open ELSE p.price_open - price
  IN /\ p.sl # 0 /\ risk > 0 /\ price # 0
     /\ BREAKEVEN_RR_DEN * move >= BREAKEVEN_RR_NUM * risk
     /\ t \notin be
     /\ IF p.type = "buy" THEN p.sl < p.price_open ELSE p.sl > p.price_open

TrailingDue(p, price) ==
  LET risk == Abs(p.price_open - p.sl)
      move == IF p.type = "buy" THEN price - p.price_open ELSE p.price_open - price
  IN /\ p.sl # 0 /\ risk > 0 /\ price # 0
     /\ TRAILING_R_MULT_DEN * move >= TRAILING_R_MULT_NUM * risk
     /\ IF p.type = "buy"
        THEN TRAILING_R_MULT_DEN * (price - p.sl) > TRAILING_R_MULT_NUM * risk
        ELSE TRAILING_R_MULT_DEN * (p.sl - price) > TRAILING_R_MULT_NUM * risk

C23_PositionIsolation ==
  [][\A t \in Tickets :
       IsOpen(positions, t) =>
         /\ BreakevenDue(positions[t], t, seen'[t], breakeven_set)
              => StopRecords(mods', t, "breakeven") # {}
         /\ (t \notin partial_closed /\ PartialThresholdReached(positions[t], seen'[t]))
              => CloseRecords(closes', t) # {}
         /\ TrailingDue(positions[t], seen'[t])
              => StopRecords(mods', t, "trailing") # {}]_vars

\* order_send raised in the break-even block of ticket 1; its trailing request
\* and all of ticket 2's requests were still sent in the same sweep
C23_Witness ==
  /\ \E i \in StopRecords(mods, 1, "breakeven") : mods[i].out = "throws"
  /\ StopRecords(mods, 1, "trailing") # {}
  /\ StopRecords(mods, 2, "breakeven") # {}
  /\ StopRecords(mods, 2, "trailing") # {}
  /\ CloseRecords(closes, 2) # {}

\* ---- C24 ----
\* For a symbol whose volume step is positive and whose minimum does not exceed
\* its maximum, the volume compute_lots returns is an integer multiple of the
\* volume step and lies within [volume_min, min(volume_max, FAT_FINGER_MAX_LOTS)].
ValidSizeInput(in) == ~in.info.none /\ in.info.vstep > 0 /\ in.info.vmin <= in.info.vmax

C24_LotsOnGridInRange ==
  (pc = "returned" /\ ValidSizeInput(callIn)) =>
    /\ callOut.lots # RaisedV
    /\ callOut.lots % callIn.info.vstep = 0
    /\ callOut.lots >= callIn.info.vmin
    /\ callOut.lots <= Min2(callIn.info.vmax, FAT_FINGER_MAX_LOTS)

\* ---- C25 ----
\* When the risk-based raw volume floors to zero volume steps, build_entry_plan
\* returns no plan.
C25_ZeroVolumeNoPlan ==
  (pc = "returned" /\ ~callIn.info.none /\ callIn.mode = "PERCENT"
     /\ RawSteps(callIn) = 0) => callOut.plan = NoneV

\* ---- C26 ----
\* DataUnavailable leaves state unchanged: a step in which the bar fetch of an
\* instrument fails modifies none of that instrument's execution state
\* (bars-seen count, started flag, last-signal flag, last-open timestamp,
\* journal and plan signatures).
C26_DataUnavailableFrame ==
  [][\A i \in 1..Len(SYMBOLS) :
       (pc = "symbols" /\ idx = i /\ cyc'.unavailable = i) =>
         /\ bars_seen'[SYMBOLS[i]] = bars_seen[SYMBOLS[i]]
         /\ started'[SYMBOLS[i]] = started[SYMBOLS[i]]
         /\ last_signal'[SYMBOLS[i]] = last_signal[SYMBOLS[i]]
         /\ last_open_time'[SYMBOLS[i]] = last_open_time[SYMBOLS[i]]
         /\ journal_sig'[SYMBOLS[i]] = journal_sig[SYMBOLS[i]]
         /\ last_plan_sig'[SYMBOLS[i]] = last_plan_sig[SYMBOLS[i]]]_vars

\* ---- C27 ----
\* Cooperative cancellation: once the stop signal is set, the loop starts no new
\* iteration and processes no further instrument, and no wait of the loop lets
\* more than one second pass without looking at the signal.
C27_CooperativeStop ==
  [][stop =>
       /\ cycle' = cycle
       /\ bars_seen' = bars_seen
       /\ now' - now <= 1]_vars

\* ---- C28 ----
\* Per-instrument failure isolation: when building the plan of an instrument
\* raises, or order_send raises while its plan is executed, the exception is
\* caught; a failed build submits nothing for that instrument; the execution
\* state of the other instruments is untouched; the loop goes on to the next
\* instrument or, after the last one, to the lifecycle sweep, which runs once
\* before the iteration ends; and the loop never stops on such an exception.
BuildRaised == pc = "symbols" /\ cyc'.raised = idx

ExecutionRaised ==
  pc = "symbols" /\ \E i \in 1..Len(lastPlace'.subs) : lastPlace'.subs[i].res = Raised

OthersUntouched ==
  \A o \in SymbolSet \ {SYMBOLS[idx]} :
    /\ bars_seen'[o] = bars_seen[o]
    /\ started'[o] = started[o]
    /\ last_signal'[o] = last_signal[o]
    /\ last_open_time'[o] = last_open_time[o]
    /\ journal_sig'[o] = journal_sig[o]
    /\ last_plan_sig'[o] = last_plan_sig[o]

C28_FailureIsolation ==
  /\ [][(BuildRaised \/ ExecutionRaised) =>
          /\ idx' = idx + 1
          /\ pc' = IF idx < Len(SYMBOLS) THEN "symbols" ELSE "manage"
          /\ OthersUntouched
          /\ BuildRaised => (positions' = positions /\ journal' = journal
                             /\ lastExec' = NoExec)]_vars
  /\ [](pc \in {"gate", "symbols", "manage", "sleep"})
  /\ []((pc = "sleep" /\ cyc.built) => (idx = Len(SYMBOLS) + 1 /\ cyc.managed = 1))

\* the first instrument's build raised, the second was processed in the same
\* iteration, and the sweep has run
C28_Witness ==
  /\ pc = "sleep"
  /\ cyc.raised = 1
  /\ cyc.managed = 1
  /\ bars_seen[SYMBOLS[2]] = cycle

\* ---- C29 ----
\* In every iteration of the trading loop manage_open_positions runs exactly
\* once, after the instruments of that iteration have been processed: it is
\* called only when the for loop over SYMBOLS is over and has not been called
\* before in the iteration, and an iteration does not end without it.
C29_ManageOncePerCycle ==
  /\ [][cyc'.managed # cyc.managed =>
          \/ cyc'.managed = 0 /\ cycle' = cycle + 1
          \/ /\ cyc'.managed = 1
             /\ pc = "manage"
             /\ idx = Len(SYMBOLS) + 1]_vars
  /\ []((cycle >= 1 /\ pc \in {"gate", "sleep"}) => cyc.managed = 1)

\* ---- C30 ----
\* Zone clustering is idempotent: _cluster_levels applied to its own output with
\* the same pip size and multiplier returns that output, and adjacent levels of
\* the output are more than the tolerance apart.
C30_ClusterIdempotent ==
  pc = "returned" =>
    /\ callOut.twice = callOut.once
    /\ \A i \in 1..(Len(callOut.once) - 1) :
         100 * (callOut.once[i + 1] - callOut.once[i]) > ClusterTol(PipUnits, callIn.mult)

\* ---- C31 ----
\* No plan trades against the higher-timeframe consensus: with the consensus
\* being the label that a strict majority of the available weekly, daily and H4
\* labels carry, build_entry_plan returns no long plan under a bear consensus
\* and no short plan under a bull consensus.
StrictMajority(in, l) ==
  LET votes == Cardinality({ k \in {"wt", "dt", "h4t"} : in[k] = l })
      available == Cardinality({ k \in {"wt", "dt", "h4t"} : in[k] # "none" })
  IN 2 * votes > available

PlanReturned == pc = "returned" /\ ~callOut.plan.none

C31_NoPlanAgainstConsensus ==
  PlanReturned =>
    /\ StrictMajority(callIn, "bear") => callOut.plan.direction # "long"
    /\ StrictMajority(callIn, "bull") => callOut.plan.direction # "short"

\* a short plan returned under a single available label, bear
C31_Witness ==
  /\ PlanReturned
  /\ callOut.plan.direction = "short"
  /\ callIn.wt = "none" /\ callIn.dt = "bear" /\ callIn.h4t = "none"

\* ---- C32 ----
\* Every plan the Signal Builder returns has its stop on the losing side and its
\* target on the winning side of the entry, and the target is at least twice as
\* far from the entry as the stop.
C32_StopTargetSides ==
  PlanReturned =>
    LET p == callOut.plan
    IN /\ p.direction = "long" => (p.sl < p.entry_price /\ p.entry_price < p.tp)
       /\ p.direction = "short" => (p.tp < p.entry_price /\ p.entry_price < p.sl)
       /\ Abs(p.tp - p.entry_price) >= 2 * Abs(p.entry_price - p.sl)

\* a long plan whose rejection candle lies above the last close
C32_Witness ==
  /\ PlanReturned
  /\ callOut.plan.direction = "long"
  /\ callIn.candles.low > callIn.candles.entry

\* ---- C33 ----
\* The breakeven flag is consumed only by an applied modification: when the
\* venue rejects the breakeven stop modification of a ticket, the ticket's
\* breakeven flag stays unset (so that breakeven is attempted again while rr is
\* at or above BREAKEVEN_RR).
C33_BreakevenFlagOnlyOnApplied ==
  [][\A i \in 1..Len(mods') :
       (mods'[i].kind = "breakeven" /\ mods'[i].out = "rejected")
         => mods'[i].ticket \notin breakeven_set']_vars

\* ---- C34 ----
\* Trailing stays live after breakeven: once breakeven has moved the stop of a
\* position to its entry price, a later sweep whose tick has reached the
\* trailing threshold of the position's original stop distance sends a trailing
\* modification for it.
AtBreakeven(p, t) == t \in breakeven_set /\ p.sl # 0 /\ p.sl = p.price_open

TrailingReached(p, price) ==
  LET move == IF p.type = "buy" THEN price - p.price_open ELSE p.price_open - price
  IN price # 0 /\ move > 0
     /\ TRAILING_R_MULT_DEN * move >= TRAILING_R_MULT_NUM * Abs(p.price_open - p.sl0)

C34_TrailingAfterBreakeven ==
  [][\A t \in Tickets :
       (IsOpen(positions, t) /\ AtBreakeven(positions[t], t)
          /\ TrailingReached(positions[t], seen'[t]))
         => StopRecords(mods', t, "trailing") # {}]_vars

\* ---- C35 ----
\* Every order the venue accepted is recorded as opened: after an execute_plan
\* call in which a submission of place_trade returned a success code, the
\* instrument's cooldown timestamp is the time of the call, the journal row of
\* the call has status 'opened', and the loop holds the plan's signature as
\* acted-on; also when the result carries no deal or order id.
C35_AcceptedIsRecorded ==
  (lastExec.symbol # "" /\ AcceptedAt(lastPlace) # 0) =>
    /\ last_open_time[lastExec.symbol] = lastExec.at
    /\ lastExec.row = "opened"
    /\ last_plan_sig[lastExec.symbol] = lastExec.sig

\* ---- C36 ----
\* Rising-edge re-arm: place_trade is invoked for an instrument only when the
\* plan builder has returned no plan for it since execute_plan last handled a
\* plan of that instrument, whether that earlier plan reached place_trade or was
\* declined for warm-up, cooldown or the position cap.
C36_RisingEdgeRearm ==
  (lastExec.symbol # "" /\ lastExec.attempt) => lastExec.since = "none"

\* place_trade invoked for an instrument that execute_plan had handled before,
\* after a cycle without a plan
C36_Witness ==
  /\ lastExec.symbol # ""
  /\ lastExec.attempt
  /\ lastExec.jprev # NoSig
  /\ lastExec.since = "none"

\* ---- C38 ----
\* Every volume place_trade submits lies within the venue's [volume_min,
\* volume_max], is volume_min plus a whole number of volume steps, and exceeds
\* neither the volume the plan asked for nor FAT_FINGER_MAX_LOTS; a plan whose
\* volume is outside the venue bounds leads to no submission.
C38_SubmittedVolumeBounded ==
  (pc = "returned" /\ callIn # NoCall) =>
    LET plan == callIn.plan
        v == callIn.v
        vol == lastPlace.vol
    IN /\ lastPlace.subs # <<>> =>
            /\ v.vmin <= vol /\ vol <= v.vmax
            /\ (vol - v.vmin) % v.vstep = 0
            /\ vol <= plan.lots
            /\ vol <= FAT_FINGER_MAX_LOTS
       /\ (plan.lots < v.vmin \/ plan.lots > v.vmax) => lastPlace.subs = <<>>

\* ---- C39 ----
\* An unavailable account snapshot is never replaced by zero in the risk gate:
\* after a failed read at loop start risk_gates_ok is not evaluated with
\* equity_start = 0, and after a failed read in a cycle it is not evaluated
\* with equity = 0 or balance = 0.
C39_NoZeroForMissingAccount ==
  lastGate.evaluated =>
    /\ callIn.start.kind # "ok" => callOut.es # 0
    /\ callIn.cycle.kind # "ok" => (callOut.equity # 0 /\ callOut.balance # 0)

\* ---- C37 ----
\* No close is lost by the history scan: the scan window is never advanced
\* past a closing deal that has no 'closed' row in the journal, so every
\* closing deal is still ahead of the window or already journalled.
C37_NoCloseLost ==
  \A d \in deals : d.time <= last_history_check => d.ticket \in closed_rows

====
